---- MODULE Spec2Model ----
(***************************************************************************)
(* Model of the valorant-instalock client session engine:                  *)
(*   src/src/valorant_client.rs        bootstrap, event loop, command loop,*)
(*                                      automation sequence (handle_pregame)*)
(*   src/src/valorant_client/http.rs   send_with_retry and the API calls   *)
(*   src/src/valorant_client/stream.rs proxy_ws_events, ValorantEventStream*)
(*   src/src/config.rs                 Config::get_agents                  *)
(***************************************************************************)
EXTENDS Integers, Sequences, FiniteSets, TLC

\* ------------------------------------------------------------------------
\* Bounds of the model
\* ------------------------------------------------------------------------
MaxEvents == 3
MaxCmds == 2
MaxInits == 2
MaxFrames == 3
MaxTakes == 3

\* tokio::sync::mpsc::channel(100)
ChannelCapacity == 100

\* let (cmd_tx, cmd_rx) = channel(100)
CmdCapacity == 100
NetScriptLen == 3

\* ------------------------------------------------------------------------
\* Values
\* ------------------------------------------------------------------------
None == "None"

MatchIds == {"m1", "m2"}

Outcomes == {"ok", "status", "timeout", "error"}

NetScripts == [1..NetScriptLen -> Outcomes]

Range(s) == {s[k] : k \in DOMAIN s}

\* Credentials (ValorantClientAuth): the pair fetched at bootstrap and the
\* pair carried by a refresh event.
BootAuth == [access_token |-> "a0", token |-> "t0"]

NewAuth == [access_token |-> "a1", token |-> "t1"]

NoAuth == [access_token |-> None, token |-> None]

\* ValorantEvent
ClientInfo(ls, id) ==
    [type |-> "ClientInfo", subject |-> "s1", loop_state |-> ls,
     maybe_match_id |-> id, auth |-> NoAuth]

EntitlementsTokenChanged(a) ==
    [type |-> "EntitlementsTokenChanged", subject |-> None, loop_state |-> None,
     maybe_match_id |-> None, auth |-> a]

ValorantEvents ==
    {ClientInfo("Pregame", m) : m \in MatchIds}
        \cup {ClientInfo("Ingame", "m1")}
        \cup {ClientInfo("Menus", "")}
        \cup {EntitlementsTokenChanged(NewAuth)}

NoEvent == [type |-> None, subject |-> None, loop_state |-> None,
            maybe_match_id |-> None, auth |-> NoAuth]

\* ------------------------------------------------------------------------
\* Static reference data (global.rs) and the configuration (config.rs)
\* ------------------------------------------------------------------------
\* GAME_AGENTS is sorted by display name (valo_types.rs: sort_by_cached_key).
GAME_AGENTS == <<"Astra", "Breach", "Cypher">>

Ascent == [name |-> "Ascent", map_url |-> "/Ascent"]

Bind == [name |-> "Bind", map_url |-> "/Bind"]

\* The catalogs GAME_MAPS can hold (init_globals falls back to whatever the
\* remote service or the cache delivers).
MapCatalogs == {<<Ascent, Bind>>, <<Bind>>}

MapUrls == {"/Ascent", "/Bind"}

AgentConfigOf(kind, agents) == [kind |-> kind, agents |-> agents]

AC_None == AgentConfigOf("None", <<>>)

NoMapAgents == [m \in {} |-> AC_None]

MapAgentConfig(kind, default, map_agents, maps) ==
    [kind |-> kind, default |-> default, map_agents |-> map_agents,
     maps |-> maps]

\* The Config values the model starts from: one per MapAgentConfig variant.
Configs ==
    { [instalock_wait_ms |-> 500, map_agent_config |-> c] : c \in
      { MapAgentConfig("None", AC_None, NoMapAgents, <<>>),
        MapAgentConfig("Default",
            AgentConfigOf("Some", <<"Cypher", "Astra", "Breach">>),
            NoMapAgents, <<>>),
        MapAgentConfig("PerSelectedMap", AC_None,
            [m \in {"Bind"} |-> AgentConfigOf("Some", <<"Breach">>)], <<>>),
        MapAgentConfig("DefaultOnSelectedMaps",
            AgentConfigOf("RandomOf", <<"Astra", "Cypher">>),
            NoMapAgents, <<"Ascent">>),
        MapAgentConfig("PerSelectedMapOrDefault",
            AgentConfigOf("Some", <<"Breach", "Astra">>),
            [m \in {"Bind"} |-> AC_None], <<>>) } }

\* slice.shuffle(): every permutation of the slice is a possible result.
Shuffles(s) ==
    { [k \in 1..Len(s) |-> s[p[k]]] :
        p \in { q \in [1..Len(s) -> 1..Len(s)] :
                  \A a, b \in 1..Len(s) : q[a] = q[b] => a = b } }

\* GAME_AGENTS.iter().filter(|a| agents.contains(&a.name.0)).collect()
FilterCatalog(agents) ==
    SelectSeq(GAME_AGENTS, LAMBDA a : a \in Range(agents))

\* AgentConfig::get_agents: the set of vectors it may return.
AgentConfig_get_agents(ac) ==
    CASE ac.kind = "None" -> {<<>>}
      [] ac.kind = "Some" -> {FilterCatalog(ac.agents)}
      [] ac.kind = "Random" -> Shuffles(GAME_AGENTS)
      [] ac.kind = "RandomOf" -> Shuffles(FilterCatalog(ac.agents))

\* Config::get_agents(map_name): the set of vectors it may return.
Config_get_agents(cfg, map_name) ==
    LET mac == cfg.map_agent_config IN
    CASE mac.kind = "None" -> {<<>>}
      [] mac.kind = "Default" -> AgentConfig_get_agents(mac.default)
      [] mac.kind = "PerSelectedMap" ->
            IF map_name \in DOMAIN mac.map_agents
            THEN AgentConfig_get_agents(mac.map_agents[map_name])
            ELSE {<<>>}
      [] mac.kind = "DefaultOnSelectedMaps" ->
            IF map_name \in Range(mac.maps)
            THEN AgentConfig_get_agents(mac.default)
            ELSE {<<>>}
      [] mac.kind = "PerSelectedMapOrDefault" ->
            IF map_name \in DOMAIN mac.map_agents
            THEN AgentConfig_get_agents(mac.map_agents[map_name])
            ELSE AgentConfig_get_agents(mac.default)

\* ------------------------------------------------------------------------
\* Retrying Request Sender (http.rs)
\* ------------------------------------------------------------------------
\* send_with_retry that retries after any failed send.
send_with_retry_RetriesAnyError(outs) ==
    IF outs[1] \in {"ok", "status"}
    THEN [sent |-> <<outs[1]>>, res |-> outs[1]]
    ELSE [sent |-> <<outs[1], outs[2]>>, res |-> outs[2]]

\* send_with_retry that keeps retrying while the attempts time out.
send_with_retry_RetriesEveryTimeout(outs) ==
    LET answered == {k \in DOMAIN outs : outs[k] # "timeout"}
        last == IF answered = {} THEN Len(outs)
                ELSE CHOOSE k \in answered : \A j \in answered : k <= j
    IN [sent |-> SubSeq(outs, 1, last), res |-> outs[last]]

\* outs[k] is what the network answers to the k-th attempt of this call:
\* "ok" a 2xx response, "status" a non-2xx response, "timeout" a send error
\* with is_timeout(), "error" any other send error.
send_with_retry(outs) ==
    IF outs[1] \in {"ok", "status"}
    THEN [sent |-> <<outs[1]>>, res |-> outs[1]]
    ELSE IF outs[1] = "timeout"
         THEN [sent |-> <<outs[1], outs[2]>>, res |-> outs[2]]
         ELSE [sent |-> <<outs[1]>>, res |-> outs[1]]

\* One API operation: send_with_retry(..).await?.error_for_status()? and,
\* for the operations with a typed payload, the decode of the body.
ApiCall(op, target, arg, outs, decodes) ==
    LET rr == send_with_retry(outs) IN
    [op |-> op, target |-> target, arg |-> arg, sent |-> rr.sent,
     res |-> rr.res,
     result |-> IF rr.res = "ok" /\ decodes THEN "Ok" ELSE "Err"]

NoCall == [op |-> None, target |-> None, arg |-> None, sent |-> <<>>,
           res |-> None, result |-> None]

NoHttp == [op |-> None, target |-> None, arg |-> None, auth |-> NoAuth]

\* The results ("Ok" or "Err") an API operation can have, over every answer
\* of the network and every body.
\* An operation that needs the match id and finds none returns
\* Err("No MatchID available") without sending anything.
NotSent(op, arg) ==
    [op |-> op, target |-> None, arg |-> arg, sent |-> <<>>, res |-> None,
     result |-> "Err"]

sessions_info(outs, decodes) ==
    ApiCall("sessions_info", None, None, outs, decodes)

fetch_auth_tokens(outs, decodes) ==
    ApiCall("fetch_auth_tokens", None, None, outs, decodes)

quit_pregame(match_id, outs) ==
    IF match_id = None THEN NotSent("quit_pregame", None)
    ELSE ApiCall("quit_pregame", match_id, None, outs, TRUE)

lock_agent(match_id, agent_id, outs) ==
    IF match_id = None THEN NotSent("lock_agent", agent_id)
    ELSE ApiCall("lock_agent", match_id, agent_id, outs, TRUE)

get_pregame_match(match_id, outs, decodes) ==
    IF match_id = None THEN NotSent("get_pregame_match", None)
    ELSE ApiCall("get_pregame_match", match_id, None, outs, decodes)

current_pregame(outs, decodes) ==
    ApiCall("current_pregame", None, None, outs, decodes)

quit_ingame(match_id, outs) ==
    IF match_id = None THEN NotSent("quit_ingame", None)
    ELSE ApiCall("quit_ingame", match_id, None, outs, TRUE)

current_ingame(outs, decodes) ==
    ApiCall("current_ingame", None, None, outs, decodes)

\* The operations that decode a typed payload from the body.
TypedOps == {"sessions_info", "fetch_auth_tokens", "get_pregame_match",
             "current_pregame", "current_ingame"}

ApiOps == TypedOps \cup {"quit_pregame", "lock_agent", "quit_ingame"}

\* The results an API operation can have, over every answer of the network
\* and every body: of the operations that decode a typed payload, and of the
\* operations that only look at the status (lock_agent, quit_pregame,
\* quit_ingame).
TypedResults ==
    {ApiCall(None, None, None, outs, d).result :
        outs \in NetScripts, d \in BOOLEAN}

StatusResults ==
    {ApiCall(None, None, None, outs, TRUE).result : outs \in NetScripts}

\* ------------------------------------------------------------------------
\* State
\* ------------------------------------------------------------------------
VARIABLES
    config,            \* ValorantClient.config (read-only)
    GAME_MAPS,         \* global map catalog (read-only)
    client_state,      \* MaybeValorantClient: "Parts" or "Client"
    loop_state,        \* ValorantClient.loop_state
    current_match_id,  \* ValorantClient.current_match_id (None or an id)
    auth,              \* ValorantClient.auth
    running,           \* ValorantClient.running
    probes,            \* outcome of the two probes of the last init
    reported,          \* what the session was last told that differed from
                       \* its record: by a probe of init or a phase report
    INTERRUPT,         \* main.rs INTERRUPT
    main_pc,           \* position of ValorantClientHandle::start
    ev_pc,             \* position of the event handler task
    cmd_pc,            \* position of the command handler task
    ev_client,         \* event handler's local `client` is Some
    cmd_client,        \* command handler's local `client` is Some
    ev_event,          \* the event the event handler is handling
    cmd,               \* the command the command handler is executing
    cmd_result,        \* how the latest executed command ended (what is
                       \* logged): None, "Ok" or "Err"
    init_owner,        \* who runs ValorantClient::init (holds client_state's lock)
    init_pc,           \* position inside ValorantClient::init
    hp,                \* locals of the running handle_pregame
    cmd_queue,         \* the command channel
    handle_alive,      \* some ValorantClientHandle (Sender) still exists
    caller,            \* the task calling quit_pregame / quit_game on the
                       \* handle: its position and the command it is sending
    http_step,         \* the API call the latest step sent (NoHttp if none)
    n_events,          \* events taken from the stream so far
    n_cmds,            \* commands enqueued so far
    n_inits,           \* ValorantClient::init runs started so far
    obs,               \* what the current automation sequence did so far
    runs,              \* handle_pregame calls since loop_state was last set
    net_outs,          \* the network's answers to the attempts of a call
    net_decodes,       \* whether the body of the response decodes
    net_match,         \* the match id recorded when the call is made
    last_call          \* the API call made with these inputs

cfgVars == <<config, GAME_MAPS>>

sessVars == <<loop_state, current_match_id, auth>>

ctlVars == <<client_state, init_owner, init_pc, main_pc, ev_pc, cmd_pc,
             ev_client, cmd_client, ev_event>>

cntVars == <<n_events, n_cmds, n_inits>>

envVars == <<INTERRUPT, cmd_queue, handle_alive, caller>>

VARIABLES
    n_frames,          \* websocket messages the proxy task has received
                       \* since the initial state
    arrived,           \* what each text message received so far decodes to,
                       \* in arrival order (NoRelevant: undecodable)
    last_event,        \* the proxy task's last_event (NoRelevant: None)
    val_event,         \* the event the proxy task is about to send
    proxy_pc,          \* position of the proxy task
    chan,              \* the mpsc channel between the proxy and next()
    rx,                \* ValorantEventStream.rx: "open" (Some) or "closed"
    stream_done,       \* next() has returned None
    yielded,           \* the events next() has returned, each with the
                       \* RelevantEvent it was made of
    fate,              \* what became of the latest message
    tracked,           \* where the most recently decoded event is
    ws_text,           \* the text message the proxy has just received
    conn_pc,           \* position of ValorantEventStream::connect
    subscribed,        \* the subscribe directives connect has sent
    succ               \* main.rs: the session that a further Created signal
                       \* starts while this one runs (its start, its
                       \* bootstrap and the sequence of its bootstrap)

vars == <<config, GAME_MAPS, client_state, loop_state, current_match_id, auth,
          running, probes, reported, INTERRUPT, main_pc, ev_pc, cmd_pc,
          ev_client, cmd_client, ev_event, cmd, cmd_result, init_owner,
          init_pc, hp, cmd_queue,
          handle_alive, caller, http_step, n_events, n_cmds, n_inits, obs,
          runs, net_outs, net_decodes, net_match, last_call, n_frames, arrived,
          last_event, val_event, proxy_pc, chan, rx, stream_done, yielded,
          fate, tracked, ws_text, conn_pc, subscribed, succ>>

\* The variables of the engine, of the Retrying Request Sender on its own,
\* and of the Event Stream; each specification leaves the others' alone.
httpVars == <<net_outs, net_decodes, net_match, last_call>>

connVars == <<conn_pc, subscribed>>

streamVars == <<n_frames, arrived, last_event, val_event, proxy_pc, chan, rx,
                stream_done, yielded, fate, tracked, ws_text, connVars>>

mainVars == <<succ>>

auxVars == <<httpVars, streamVars, mainVars>>

\* The operations authenticated with the lockfile's password (with_local_auth)
LocalOps == {"sessions_info", "fetch_auth_tokens"}

\* with_remote_auth that takes the lock once for each field: a refresh that
\* the event handler is about to apply lands between the two reads.
with_remote_auth_LocksPerField ==
    IF ev_pc = "dispatch" /\ ev_event.type = "EntitlementsTokenChanged"
    THEN [access_token |-> auth.access_token, token |-> ev_event.auth.token]
    ELSE auth

\* with_remote_auth: let auth = self.auth(); both fields are read under this
\* one guard.
with_remote_auth == auth

\* The request a step sends.
ApiSent(op, target, arg) ==
    [op |-> op, target |-> target, arg |-> arg,
     auth |-> IF op \in LocalOps THEN NoAuth ELSE with_remote_auth]

\* What init has learnt from current_pregame and current_ingame: the match
\* id of an Ok answer, "Err", or "NotMade" for a probe that was not made.
\* A phase and the match id that goes with it.
Told(phase, id) == [phase |-> phase, id |-> id]

NoProbes == [pregame |-> "NotMade", ingame |-> "NotMade"]

CallerIdle == [pc |-> "idle", cmd |-> None]

\* tx.send(cmd).await.unwrap() of a caller: Err(SendError) when the receiver
\* is gone, the command in the channel when there is room, waiting otherwise.
SendOutcome(c) ==
    IF cmd_pc \in {"done", "panicked"}
    THEN /\ caller' = [pc |-> "panicked", cmd |-> None]
         /\ UNCHANGED cmd_queue
    ELSE IF Len(cmd_queue) < CmdCapacity
    THEN /\ caller' = CallerIdle
         /\ cmd_queue' = Append(cmd_queue, c)
    ELSE /\ caller' = [pc |-> "sending", cmd |-> c]
         /\ UNCHANGED cmd_queue

HpIdle == [pc |-> None, wait |-> FALSE, agents |-> <<>>, i |-> 0]

\* No further Created signal has been received.
NoSuccessor == [pc |-> None, match |-> None, agents |-> <<>>, i |-> 0,
                attempted |-> FALSE]

HpEntered(wait) == [pc |-> "entry", wait |-> wait, agents |-> <<>>, i |-> 0]

NoReport == [agent |-> None, failed_attempts |-> 0]

\* What an automation sequence did: the INTERRUPT value it loaded, whether it
\* fetched the pregame match and waited the initial delay, the map it resolved
\* and the agents it looked up, the agents it sent a lock request for with
\* each request's result, what it reported and how it ended.
ObsIdle == [interrupted |-> FALSE, fetched |-> FALSE, fetch_result |-> None,
            waited |-> FALSE, map |-> None, agents |-> <<>>, attempted |-> <<>>, results |-> <<>>,
            report |-> NoReport, returned |-> None]

\* runs counts the handle_pregame calls since loop_state was last something
\* else than Pregame; this is its value after set_loop_state(new).
RunsAfterSet(new) ==
    IF loop_state = "Pregame" /\ new = "Pregame" THEN runs ELSE 0

EngineInit ==
    /\ config \in Configs
    /\ GAME_MAPS \in MapCatalogs
    /\ client_state = "Parts"
    /\ loop_state = "Menus"
    /\ current_match_id = None
    /\ auth = NoAuth
    /\ running = TRUE
    /\ probes = NoProbes
    /\ reported = Told("Menus", None)
    /\ INTERRUPT = FALSE
    /\ main_pc = "start"
    /\ ev_pc = None
    /\ cmd_pc = None
    /\ ev_client = FALSE
    /\ cmd_client = FALSE
    /\ ev_event = NoEvent
    /\ cmd = None
    /\ cmd_result = None
    /\ init_owner = None
    /\ init_pc = None
    /\ hp = HpIdle
    /\ cmd_queue = <<>>
    /\ handle_alive = TRUE
    /\ caller = CallerIdle
    /\ http_step = NoHttp
    /\ n_events = 0
    /\ n_cmds = 0
    /\ n_inits = 0
    /\ obs = ObsIdle
    /\ runs = 0
    /\ succ = NoSuccessor

\* ------------------------------------------------------------------------
\* Event stream: the text of a websocket message and its decoding
\* ------------------------------------------------------------------------
Absent == "Absent"

EventKinds == {"OnJsonApiEvent_entitlements_v1_token",
               "OnJsonApiEvent_riot-messaging-service_v1_message"}

DataModifiers == {"Update", "Create", "Delete"}

\* The stringified JSON of the "payload" member; shape is "absent" when the
\* member is missing, "garbage" when it is not the JSON of an object.
Payload(shape, ls, id, version) ==
    [shape |-> shape, subject |-> "s1", loopState |-> ls,
     loopStateMetadata |-> id, version |-> version]

NoPayload == Payload("absent", None, None, 0)

\* The text of a message: "" (shape "empty"), something that is not a JSON
\* array of three (shape "garbage"), or [opcode, kind, {data, eventType, uri}].
Frame(opcode, kind, payload, at, tk, et, uri) ==
    [shape |-> "array", opcode |-> opcode, kind |-> kind,
     data |-> [payload |-> payload, accessToken |-> at, token |-> tk],
     eventType |-> et, uri |-> uri]

EmptyText ==
    [Frame(0, None, NoPayload, Absent, Absent, None, None)
        EXCEPT !.shape = "empty"]

\* No text message: the proxy's latest step did not receive one.
NoText ==
    [Frame(0, None, NoPayload, Absent, Absent, None, None)
        EXCEPT !.shape = "none"]

GarbageText ==
    [Frame(0, None, NoPayload, Absent, Absent, None, None)
        EXCEPT !.shape = "garbage"]

StatusFrame(et, uri, ls, id, version) ==
    Frame(8, "OnJsonApiEvent_riot-messaging-service_v1_message",
          Payload("status", ls, id, version), Absent, Absent, et, uri)

TokenFrame(et, a) ==
    Frame(8, "OnJsonApiEvent_entitlements_v1_token", NoPayload,
          a.access_token, a.token, et, "/entitlements/v1/token")

WsTexts ==
    {EmptyText, GarbageText,
     StatusFrame("Create", "u1", "PREGAME", "m1", 1),
     StatusFrame("Create", "u1", "PREGAME", "m1", 2),
     StatusFrame("Update", "u1", "PREGAME", "m1", 1),
     StatusFrame("Create", "u1", "MENUS", "", 1),
     StatusFrame("Create", "u1", "LOBBY", "", 1),
     TokenFrame("Update", NewAuth),
     Frame(8, "OnJsonApiEvent", Payload("status", "MENUS", "", 1),
           Absent, Absent, "Create", "u1"),
     Frame(8, "OnJsonApiEvent_riot-messaging-service_v1_message",
           Payload("status", "INGAME", "m1", 1), "a1", "t1", "Update", "u1")}

\* EventKind::VARIANTS, in the order of declaration
EventKind_VARIANTS ==
    <<"OnJsonApiEvent_entitlements_v1_token",
      "OnJsonApiEvent_riot-messaging-service_v1_message">>

\* format!("[5, \"{}\"]", kind): the subscribe directive for one kind
SubscribeText(kind) == [opcode |-> 5, kind |-> kind]

\* subscribe_val_events: the messages handed to ws.send_all, in order
Subscriptions ==
    [k \in DOMAIN EventKind_VARIANTS |-> SubscribeText(EventKind_VARIANTS[k])]

\* serde(rename_all = "SCREAMING_SNAKE_CASE")
DecodeGameLoopState(str) ==
    CASE str = "PREGAME" -> "Pregame"
      [] str = "INGAME" -> "Ingame"
      [] str = "MENUS" -> "Menus"
      [] OTHER -> None

\* RelevantEvent; variant None stands for a text that decodes to neither
\* variant.
Relevant(variant, f, subject, ls, id, at, tk) ==
    [variant |-> variant, opcode |-> f.opcode, kind |-> f.kind,
     data |-> [subject |-> subject, loop_state |-> ls, maybe_match_id |-> id,
               access_token |-> at, token |-> tk],
     event_type |-> f.eventType, uri |-> f.uri]

NoRelevant == Relevant(None, EmptyText, None, None, None, None, None)

\* Event<T>: a JSON array of an integer, a known kind and an object with
\* data, eventType and uri; the opcode is any i32.
MatchesEvent(text) ==
    /\ text.shape = "array"
    /\ text.kind \in EventKinds
    /\ text.eventType \in DataModifiers

\* Event<MessagingServiceMessage<ClientStatus>>: data.payload is the JSON
\* of an object with subject, a known loopState and loopStateMetadata.
MatchesClientInfo(text) ==
    /\ MatchesEvent(text)
    /\ text.data.payload.shape = "status"
    /\ DecodeGameLoopState(text.data.payload.loopState) # None

\* Event<ValorantClientAuth>: data has accessToken and token.
MatchesEntitlementsToken(text) ==
    /\ MatchesEvent(text)
    /\ text.data.accessToken # Absent
    /\ text.data.token # Absent

\* Decode with the EntitlementsToken variant tried first.
Decode_TokenFirst(text) ==
    IF \/ text.shape # "array"
       \/ text.kind \notin EventKinds
       \/ text.eventType \notin DataModifiers
    THEN NoRelevant
    ELSE LET p == text.data.payload
             ls == DecodeGameLoopState(p.loopState)
         IN IF /\ text.data.accessToken # Absent
               /\ text.data.token # Absent
            THEN Relevant("EntitlementsToken", text, None, None, None,
                          text.data.accessToken, text.data.token)
            ELSE IF p.shape = "status" /\ ls # None
                 THEN Relevant("ClientInfo", text, p.subject, ls,
                               p.loopStateMetadata, None, None)
                 ELSE NoRelevant

\* serde_json::from_str::<RelevantEvent>: the untagged variants are tried in
\* their order of declaration, ClientInfo first.
Decode(text) ==
    IF \/ text.shape # "array"
       \/ text.kind \notin EventKinds
       \/ text.eventType \notin DataModifiers
    THEN NoRelevant
    ELSE LET p == text.data.payload
             ls == DecodeGameLoopState(p.loopState)
         IN IF p.shape = "status" /\ ls # None
            THEN Relevant("ClientInfo", text, p.subject, ls,
                          p.loopStateMetadata, None, None)
            ELSE IF /\ text.data.accessToken # Absent
                    /\ text.data.token # Absent
                 THEN Relevant("EntitlementsToken", text, None, None, None,
                               text.data.accessToken, text.data.token)
                 ELSE NoRelevant

\* The ValorantEvent made of a RelevantEvent: event.2.data.payload, or
\* event.2.data
ToValorantEvent(event) ==
    IF event.variant = "ClientInfo"
    THEN [type |-> "ClientInfo", subject |-> event.data.subject,
          loop_state |-> event.data.loop_state,
          maybe_match_id |-> event.data.maybe_match_id, auth |-> NoAuth]
    ELSE EntitlementsTokenChanged(
             [access_token |-> event.data.access_token,
              token |-> event.data.token])

\* Where the most recently decoded event is: not yet in the channel
\* ("pending"), in the channel with ahead - 1 events in front of it
\* ("queued"), returned by next(), or dropped.
Untracked == [st |-> None, ahead |-> 0]

Pending == [st |-> "pending", ahead |-> 0]

Queued(n) == [st |-> "queued", ahead |-> n]

Returned == [st |-> "returned", ahead |-> 0]

Dropped == [st |-> "dropped", ahead |-> 0]

\* next() takes the head of the channel.
TrackedAfterNext ==
    IF tracked.st # "queued" THEN tracked
    ELSE IF tracked.ahead = 1 THEN Returned
    ELSE Queued(tracked.ahead - 1)

StreamInit ==
    /\ n_frames = 0
    /\ arrived = <<>>
    /\ last_event = NoRelevant
    /\ val_event = NoEvent
    /\ proxy_pc = "receive"
    /\ chan = <<>>
    /\ rx = "open"
    /\ stream_done = FALSE
    /\ yielded = <<>>
    /\ fate = None
    /\ tracked = Untracked
    /\ ws_text = NoText
    /\ conn_pc = "connected"
    /\ subscribed = Subscriptions

HttpInit ==
    /\ net_outs = [k \in 1..NetScriptLen |-> "ok"]
    /\ net_decodes = TRUE
    /\ net_match = None
    /\ last_call = NoCall

Init ==
    /\ EngineInit
    /\ HttpInit
    /\ StreamInit

\* The process is alive: a panic on the main task ends every task.
Alive == main_pc # "panicked"

\* ------------------------------------------------------------------------
\* ValorantClient::init, run by start (MaybeValorantClient::init) or by one
\* of the two handler tasks (MaybeValorantClient::retry_init)
\* ------------------------------------------------------------------------
\* InitReturn with start passing the error of init on to its caller.
InitReturn_PropagatesError(ok) ==
    /\ client_state' = IF ok THEN "Client" ELSE client_state
    /\ init_owner' = None
    /\ init_pc' = None
    /\ main_pc' = IF init_owner = "main"
                  THEN IF ok THEN "spawned" ELSE "failed"
                  ELSE main_pc
    /\ ev_pc' = CASE init_owner = "main" -> IF ok THEN "next" ELSE ev_pc
                  [] init_owner = "ev" -> IF ok THEN "dispatch" ELSE "next"
                  [] OTHER -> ev_pc
    /\ ev_client' = IF init_owner = "ev" /\ ok THEN TRUE ELSE ev_client
    /\ ev_event' = ev_event
    /\ cmd_pc' = CASE init_owner = "main" -> IF ok THEN "top" ELSE cmd_pc
                   [] init_owner = "cmd" -> IF ok THEN "recv" ELSE "top"
                   [] OTHER -> cmd_pc
    /\ cmd_client' = IF init_owner = "cmd" /\ ok THEN TRUE ELSE cmd_client

\* InitReturn whose event handler keeps the event for another retry when
\* the client is still missing.
InitReturn_KeepsEvent(ok) ==
    /\ client_state' = IF ok THEN "Client" ELSE client_state
    /\ init_owner' = None
    /\ init_pc' = None
    /\ main_pc' = IF init_owner = "main" THEN "spawned" ELSE main_pc
    /\ ev_pc' = CASE init_owner = "main" -> "next"
                  [] init_owner = "ev" ->
                        IF ok THEN "dispatch" ELSE "need_client"
                  [] OTHER -> ev_pc
    /\ ev_client' = IF init_owner = "ev" /\ ok THEN TRUE ELSE ev_client
    /\ ev_event' = ev_event
    /\ cmd_pc' = CASE init_owner = "main" -> "top"
                   [] init_owner = "cmd" -> IF ok THEN "recv" ELSE "top"
                   [] OTHER -> cmd_pc
    /\ cmd_client' = IF init_owner = "cmd" /\ ok THEN TRUE ELSE cmd_client

\* Where the caller of init continues; ok = init returned Ok(client).
InitReturn(ok) ==
    /\ client_state' = IF ok THEN "Client" ELSE client_state
    /\ init_owner' = None
    /\ init_pc' = None
    /\ main_pc' = IF init_owner = "main" THEN "spawned" ELSE main_pc
    /\ ev_pc' = CASE init_owner = "main" -> "next"
                  [] init_owner = "ev" -> IF ok THEN "dispatch" ELSE "next"
                  [] OTHER -> ev_pc
    /\ ev_client' = IF init_owner = "ev" /\ ok THEN TRUE ELSE ev_client
    /\ ev_event' = ev_event
    /\ cmd_pc' = CASE init_owner = "main" -> "top"
                   [] init_owner = "cmd" -> IF ok THEN "recv" ELSE "top"
                   [] OTHER -> cmd_pc
    /\ cmd_client' = IF init_owner = "cmd" /\ ok THEN TRUE ELSE cmd_client

\* A panic of the task that runs init or handle_pregame: the task ends, the
\* client_state guard is released by unwinding, init did not complete.
TaskPanics ==
    /\ client_state' = client_state
    /\ init_owner' = None
    /\ init_pc' = None
    /\ main_pc' = IF init_owner = "main" THEN "panicked" ELSE main_pc
    /\ ev_pc' = IF init_owner \in {"ev", None} THEN "panicked" ELSE ev_pc
    /\ cmd_pc' = IF init_owner = "cmd" THEN "panicked" ELSE cmd_pc
    /\ UNCHANGED <<ev_client, cmd_client, ev_event>>

\* ValorantClientHandle::start: ValorantEventStream::connect(&lockfile).await?
\* returns the error to the caller; otherwise MaybeValorantClient::init
Start(connected) ==
    /\ main_pc = "start"
    /\ IF connected
       THEN /\ main_pc' = "init"
            /\ init_owner' = "main"
            /\ init_pc' = "auth"
            /\ n_inits' = n_inits + 1
       ELSE /\ main_pc' = "failed"
            /\ UNCHANGED <<init_owner, init_pc, n_inits>>
    /\ http_step' = NoHttp
    /\ UNCHANGED auxVars
    /\ UNCHANGED <<cfgVars, sessVars, running, probes, reported, envVars,
                   client_state, ev_pc, cmd_pc, ev_client, cmd_client,
                   ev_event, cmd, cmd_result, hp, n_events, n_cmds, obs, runs>>

\* init: Self::fetch_auth_tokens(&client, &lockfile).await?
InitFetchAuth(r) ==
    /\ Alive
    /\ init_pc = "auth"
    /\ http_step' = ApiSent("fetch_auth_tokens", None, None)
    /\ UNCHANGED auxVars
    /\ IF r = "Ok"
       THEN /\ init_pc' = "sessions"
            /\ UNCHANGED <<client_state, init_owner, main_pc, ev_pc, cmd_pc,
                           ev_client, cmd_client, ev_event>>
       ELSE InitReturn(FALSE)
    /\ UNCHANGED <<cfgVars, sessVars, running, probes, reported, envVars, cmd,
                   cmd_result, hp, cntVars, obs, runs>>

\* init: sessions_info, the Valorant session, its region and shard, and
\* Self::new(..) which creates the Session State.
InitSessions(r, found) ==
    /\ Alive
    /\ init_pc = "sessions"
    /\ http_step' = ApiSent("sessions_info", None, None)
    /\ UNCHANGED auxVars
    /\ IF r = "Ok" /\ found
       THEN /\ init_pc' = "pregame"
            /\ loop_state' = "Menus"
            /\ current_match_id' = None
            /\ auth' = BootAuth
            /\ running' = TRUE
            /\ probes' = NoProbes
            /\ reported' = Told("Menus", None)
            /\ runs' = 0
            /\ UNCHANGED <<client_state, init_owner, main_pc, ev_pc, cmd_pc,
                           ev_client, cmd_client, ev_event>>
       ELSE /\ InitReturn(FALSE)
            /\ UNCHANGED <<sessVars, running, probes, reported, runs>>
    /\ UNCHANGED <<cfgVars, envVars, cmd, cmd_result, hp, cntVars, obs>>

\* InitCurrentPregame with the in-game probe made first: an Ok answer of
\* current_ingame wins over the pregame probe.
InitCurrentPregame_ProbesIngameFirst(r, m) ==
    /\ Alive
    /\ init_pc = "pregame"
    /\ http_step' = ApiSent("current_ingame", None, None)
    /\ UNCHANGED auxVars
    /\ \E ri \in {"Ok", "Err"} :
         IF ri = "Ok"
         THEN /\ loop_state' = "Ingame"
              /\ current_match_id' = m
              /\ runs' = RunsAfterSet("Ingame")
              /\ probes' = [pregame |-> IF r = "Ok" THEN m ELSE "Err",
                            ingame |-> m]
              /\ reported' = Told("Ingame", m)
              /\ init_pc' = "ingame"
              /\ UNCHANGED hp
         ELSE IF r = "Ok"
         THEN /\ loop_state' = "Pregame"
              /\ current_match_id' = m
              /\ runs' = RunsAfterSet("Pregame")
              /\ probes' = [pregame |-> m, ingame |-> "Err"]
              /\ reported' = Told("Pregame", m)
              /\ init_pc' = "hp"
              /\ hp' = HpEntered(FALSE)
         ELSE /\ init_pc' = "ingame"
              /\ probes' = [pregame |-> "Err", ingame |-> "NotMade"]
              /\ UNCHANGED <<loop_state, current_match_id, runs, hp, reported>>
    /\ UNCHANGED <<cfgVars, auth, running, envVars, client_state, init_owner,
                   main_pc, ev_pc, cmd_pc, ev_client, cmd_client, ev_event,
                   cmd, cmd_result, cntVars, obs>>

\* init: match this.current_pregame().await { Ok(pregame) => .., Err => .. }
InitCurrentPregame(r, m) ==
    /\ Alive
    /\ init_pc = "pregame"
    /\ http_step' = ApiSent("current_pregame", None, None)
    /\ UNCHANGED auxVars
    /\ IF r = "Ok"
       THEN /\ loop_state' = "Pregame"
            /\ current_match_id' = m
            /\ runs' = RunsAfterSet("Pregame")
            /\ probes' = [pregame |-> m, ingame |-> "NotMade"]
            /\ reported' = Told("Pregame", m)
            /\ init_pc' = "hp"
            /\ hp' = HpEntered(FALSE)
       ELSE /\ init_pc' = "ingame"
            /\ probes' = [pregame |-> "Err", ingame |-> "NotMade"]
            /\ UNCHANGED <<loop_state, current_match_id, runs, hp, reported>>
    /\ UNCHANGED <<cfgVars, auth, running, envVars, client_state, init_owner,
                   main_pc, ev_pc, cmd_pc, ev_client, cmd_client, ev_event,
                   cmd, cmd_result, cntVars, obs>>

\* init: let ingame = this.current_ingame().await; if let Ok(ingame) ..
InitCurrentIngame(r, m) ==
    /\ Alive
    /\ init_pc = "ingame"
    /\ http_step' = ApiSent("current_ingame", None, None)
    /\ UNCHANGED auxVars
    /\ IF r = "Ok"
       THEN /\ loop_state' = "Ingame"
            /\ current_match_id' = m
            /\ runs' = RunsAfterSet("Ingame")
            /\ reported' = Told("Ingame", m)
       ELSE UNCHANGED <<loop_state, current_match_id, runs, reported>>
    /\ probes' = [probes EXCEPT !.ingame = IF r = "Ok" THEN m ELSE "Err"]
    /\ init_pc' = "return"
    /\ UNCHANGED <<client_state, init_owner, main_pc, ev_pc, cmd_pc, ev_client,
                   cmd_client, ev_event>>
    /\ UNCHANGED <<cfgVars, auth, running, envVars, cmd, cmd_result, hp,
                   cntVars, obs>>

\* init: Ok(this), after the match on the pregame probe
InitOk ==
    /\ Alive
    /\ init_pc = "return"
    /\ InitReturn(TRUE)
    /\ probes' = NoProbes
    /\ UNCHANGED reported
    /\ http_step' = NoHttp
    /\ UNCHANGED auxVars
    /\ UNCHANGED <<cfgVars, sessVars, running, envVars, cmd, cmd_result, hp,
                   cntVars, obs, runs>>

\* ------------------------------------------------------------------------
\* The Automation Sequence: ValorantClient::handle_pregame(wait)
\* ------------------------------------------------------------------------
\* handle_pregame returns to its caller: init (bootstrap path, which then
\* returns Ok(this)) or the event handler (which takes the next event).
HpReturn ==
    /\ hp' = HpIdle
    /\ IF init_owner # None
       THEN /\ init_pc' = "return"
            /\ UNCHANGED <<client_state, init_owner, main_pc, ev_pc, cmd_pc,
                           ev_client, cmd_client, ev_event>>
       ELSE /\ ev_pc' = "next"
            /\ UNCHANGED <<client_state, init_owner, init_pc, main_pc, cmd_pc,
                           ev_client, cmd_client, ev_event>>

\* HpEntry without the INTERRUPT check.
HpEntry_NoInterruptCheck ==
    /\ Alive
    /\ hp.pc = "entry"
    /\ runs' = runs + 1
    /\ IF current_match_id = None
       THEN /\ obs' = [ObsIdle EXCEPT !.interrupted = INTERRUPT,
                                     !.returned = "None"]
            /\ HpReturn
       ELSE /\ obs' = [ObsIdle EXCEPT !.interrupted = INTERRUPT]
            /\ hp' = [hp EXCEPT !.pc = "fetch"]
            /\ UNCHANGED ctlVars
    /\ http_step' = NoHttp
    /\ UNCHANGED auxVars
    /\ UNCHANGED <<cfgVars, sessVars, running, probes, reported, envVars, cmd,
                   cmd_result, cntVars>>

\* handle_pregame, up to the INTERRUPT check (no suspension point before it).
HpEntry ==
    /\ Alive
    /\ hp.pc = "entry"
    /\ runs' = runs + 1
    /\ IF current_match_id = None \/ INTERRUPT
       THEN /\ obs' = [ObsIdle EXCEPT !.interrupted = INTERRUPT,
                                     !.returned = "None"]
            /\ HpReturn
       ELSE /\ obs' = [ObsIdle EXCEPT !.interrupted = INTERRUPT]
            /\ hp' = [hp EXCEPT !.pc = "fetch"]
            /\ UNCHANGED ctlVars
    /\ http_step' = NoHttp
    /\ UNCHANGED auxVars
    /\ UNCHANGED <<cfgVars, sessVars, running, probes, reported, envVars, cmd,
                   cmd_result, cntVars>>

\* HpFetch that goes on to the lock loop whatever wait is.
HpFetch_SkipsWait(r, url) ==
    LET c == ApiSent("get_pregame_match", current_match_id, None)
        sent == current_match_id # None
        ok == sent /\ r = "Ok"
        found == IF ok
                 THEN {m \in Range(GAME_MAPS) : m.map_url = url}
                 ELSE {m \in Range(GAME_MAPS) : m.name = "Ascent"}
    IN
    /\ Alive
    /\ hp.pc = "fetch"
    /\ http_step' = IF sent THEN c ELSE NoHttp
    /\ UNCHANGED auxVars
    /\ IF found = {}
       THEN \* .find(..).unwrap() on None
            /\ hp' = HpIdle
            /\ obs' = [obs EXCEPT !.fetched = sent, !.fetch_result = r,
                                  !.returned = "panic"]
            /\ TaskPanics
       ELSE LET map == CHOOSE m \in found : TRUE IN
            \E agents \in Config_get_agents(config, map.name) :
                /\ hp' = [hp EXCEPT
                            !.pc = "lock",
                            !.agents = agents, !.i = 0]
                /\ obs' = [obs EXCEPT !.fetched = sent, !.fetch_result = r,
                                      !.map = map.name,
                                      !.agents = agents]
                /\ UNCHANGED ctlVars
    /\ UNCHANGED <<cfgVars, sessVars, running, probes, reported, envVars, cmd,
                   cmd_result, cntVars, runs>>

\* handle_pregame: get_pregame_match, the map lookup with its Ascent
\* fallback, config.get_agents(map.name)
HpFetch(r, url) ==
    LET c == ApiSent("get_pregame_match", current_match_id, None)
        sent == current_match_id # None
        ok == sent /\ r = "Ok"
        found == IF ok
                 THEN {m \in Range(GAME_MAPS) : m.map_url = url}
                 ELSE {m \in Range(GAME_MAPS) : m.name = "Ascent"}
    IN
    /\ Alive
    /\ hp.pc = "fetch"
    /\ http_step' = IF sent THEN c ELSE NoHttp
    /\ UNCHANGED auxVars
    /\ IF found = {}
       THEN \* .find(..).unwrap() on None
            /\ hp' = HpIdle
            /\ obs' = [obs EXCEPT !.fetched = sent, !.fetch_result = r,
                                  !.returned = "panic"]
            /\ TaskPanics
       ELSE LET map == CHOOSE m \in found : TRUE IN
            \E agents \in Config_get_agents(config, map.name) :
                /\ hp' = [hp EXCEPT
                            !.pc = IF hp.wait THEN "wait" ELSE "lock",
                            !.agents = agents, !.i = 0]
                /\ obs' = [obs EXCEPT !.fetched = sent, !.fetch_result = r,
                                      !.map = map.name,
                                      !.agents = agents]
                /\ UNCHANGED ctlVars
    /\ UNCHANGED <<cfgVars, sessVars, running, probes, reported, envVars, cmd,
                   cmd_result, cntVars, runs>>

\* HpWait that looks at INTERRUPT again once the delay is over.
HpWait_ChecksInterrupt ==
    /\ Alive
    /\ hp.pc = "wait"
    /\ IF INTERRUPT
       THEN /\ obs' = [obs EXCEPT !.waited = TRUE, !.returned = "None"]
            /\ HpReturn
       ELSE /\ hp' = [hp EXCEPT !.pc = "lock"]
            /\ obs' = [obs EXCEPT !.waited = TRUE]
            /\ UNCHANGED ctlVars
    /\ http_step' = NoHttp
    /\ UNCHANGED auxVars
    /\ UNCHANGED <<cfgVars, sessVars, running, probes, reported, envVars, cmd,
                   cmd_result, cntVars, runs>>

\* handle_pregame: if wait { instalock_wait.await }
HpWait ==
    /\ Alive
    /\ hp.pc = "wait"
    /\ hp' = [hp EXCEPT !.pc = "lock"]
    /\ obs' = [obs EXCEPT !.waited = TRUE]
    /\ http_step' = NoHttp
    /\ UNCHANGED auxVars
    /\ UNCHANGED <<cfgVars, sessVars, running, probes, reported, envVars,
                   ctlVars, cmd, cmd_result, cntVars, runs>>

\* HpLock that goes on to the next candidate after a successful lock.
HpLock_ContinuesAfterSuccess(r) ==
    LET agent == hp.agents[hp.i + 1]
        c == ApiSent("lock_agent", current_match_id, agent)
        sent == current_match_id # None
        ok == sent /\ r = "Ok"
    IN
    /\ Alive
    /\ hp.pc = "lock"
    /\ hp.i < Len(hp.agents)
    /\ http_step' = IF sent THEN c ELSE NoHttp
    /\ UNCHANGED auxVars
    /\ IF ok
       THEN /\ obs' = [obs EXCEPT
                         !.attempted = Append(@, agent),
                         !.results = Append(@, "Ok"),
                         !.report = [agent |-> agent,
                                     failed_attempts |-> hp.i],
                         !.returned = None]
            /\ hp' = [hp EXCEPT !.i = hp.i + 1]
            /\ UNCHANGED ctlVars
       ELSE /\ obs' = [obs EXCEPT
                         !.attempted = IF sent THEN Append(@, agent) ELSE @,
                         !.results = Append(@, "Err")]
            /\ hp' = [hp EXCEPT !.i = hp.i + 1]
            /\ UNCHANGED ctlVars
    /\ UNCHANGED <<cfgVars, sessVars, running, probes, reported, envVars, cmd,
                   cmd_result, cntVars, runs>>

\* HpLock that returns from handle_pregame at the first failed lock.
HpLock_PropagatesError(r) ==
    LET agent == hp.agents[hp.i + 1]
        c == ApiSent("lock_agent", current_match_id, agent)
        sent == current_match_id # None
        ok == sent /\ r = "Ok"
    IN
    /\ Alive
    /\ hp.pc = "lock"
    /\ hp.i < Len(hp.agents)
    /\ http_step' = IF sent THEN c ELSE NoHttp
    /\ UNCHANGED auxVars
    /\ IF ok
       THEN /\ obs' = [obs EXCEPT
                         !.attempted = Append(@, agent),
                         !.results = Append(@, "Ok"),
                         !.report = [agent |-> agent,
                                     failed_attempts |-> hp.i],
                         !.returned = "Some"]
            /\ HpReturn
       ELSE /\ obs' = [obs EXCEPT
                         !.attempted = IF sent THEN Append(@, agent) ELSE @,
                         !.results = Append(@, "Err"),
                         !.returned = "None"]
            /\ HpReturn
    /\ UNCHANGED <<cfgVars, sessVars, running, probes, reported, envVars, cmd,
                   cmd_result, cntVars, runs>>

\* handle_pregame: one evaluation of the while condition with i < len, i.e.
\* one lock_agent(agents[i]) call, and what follows it.
HpLock(r) ==
    LET agent == hp.agents[hp.i + 1]
        c == ApiSent("lock_agent", current_match_id, agent)
        sent == current_match_id # None
        ok == sent /\ r = "Ok"
    IN
    /\ Alive
    /\ hp.pc = "lock"
    /\ hp.i < Len(hp.agents)
    /\ http_step' = IF sent THEN c ELSE NoHttp
    /\ UNCHANGED auxVars
    /\ IF ok
       THEN /\ obs' = [obs EXCEPT
                         !.attempted = Append(@, agent),
                         !.results = Append(@, "Ok"),
                         !.report = [agent |-> agent,
                                     failed_attempts |-> hp.i],
                         !.returned = "Some"]
            /\ HpReturn
       ELSE /\ obs' = [obs EXCEPT
                         !.attempted = IF sent THEN Append(@, agent) ELSE @,
                         !.results = Append(@, "Err")]
            /\ hp' = [hp EXCEPT !.i = hp.i + 1]
            /\ UNCHANGED ctlVars
    /\ UNCHANGED <<cfgVars, sessVars, running, probes, reported, envVars, cmd,
                   cmd_result, cntVars, runs>>

\* handle_pregame: the while condition with i >= len; nothing was locked.
HpExhausted ==
    /\ Alive
    /\ hp.pc = "lock"
    /\ hp.i >= Len(hp.agents)
    /\ obs' = [obs EXCEPT !.returned = "Some"]
    /\ HpReturn
    /\ http_step' = NoHttp
    /\ UNCHANGED auxVars
    /\ UNCHANGED <<cfgVars, sessVars, running, probes, reported, envVars, cmd,
                   cmd_result, cntVars, runs>>

\* EvNext that also takes an event while handle_pregame is running.
EvNext_WhileHandling(e) ==
    /\ Alive
    /\ ev_pc \in {"next", "hp"}
    /\ n_events < MaxEvents
    /\ n_events' = n_events + 1
    /\ ev_event' = e
    /\ obs' = ObsIdle
    /\ ev_pc' = IF ev_client THEN "dispatch" ELSE "need_client"
    /\ http_step' = NoHttp
    /\ UNCHANGED auxVars
    /\ UNCHANGED <<cfgVars, sessVars, running, probes, reported, envVars,
                   client_state, init_owner, init_pc, main_pc, cmd_pc,
                   ev_client, cmd_client, cmd, cmd_result, hp, n_cmds, n_inits,
                   runs>>

\* ------------------------------------------------------------------------
\* The event handler task (spawn_event_handler)
\* ------------------------------------------------------------------------
\* stream.next().await yields Some(event)
EvNext(e) ==
    /\ Alive
    /\ ev_pc = "next"
    /\ n_events < MaxEvents
    /\ n_events' = n_events + 1
    /\ ev_event' = e
    /\ obs' = ObsIdle
    /\ ev_pc' = IF ev_client THEN "dispatch" ELSE "need_client"
    /\ http_step' = NoHttp
    /\ UNCHANGED auxVars
    /\ UNCHANGED <<cfgVars, sessVars, running, probes, reported, envVars,
                   client_state, init_owner, init_pc, main_pc, cmd_pc,
                   ev_client, cmd_client, cmd, cmd_result, hp, n_cmds, n_inits,
                   runs>>

\* stream.next().await yields None
EvStreamEnded ==
    /\ Alive
    /\ ev_pc = "next"
    /\ ev_pc' = "done"
    /\ http_step' = NoHttp
    /\ UNCHANGED auxVars
    /\ UNCHANGED <<cfgVars, sessVars, running, probes, reported, envVars,
                   client_state, init_owner, init_pc, main_pc, cmd_pc,
                   ev_client, cmd_client, ev_event, cmd, cmd_result, hp,
                   cntVars, obs, runs>>

\* EvRetryInit whose retry_init bootstraps whatever the cell holds.
EvRetryInit_NoPartsCheck ==
    /\ Alive
    /\ ev_pc = "need_client"
    /\ init_owner = None
    /\ n_inits < MaxInits
    /\ n_inits' = n_inits + 1
    /\ init_owner' = "ev"
    /\ init_pc' = "auth"
    /\ ev_pc' = "init"
    /\ UNCHANGED ev_client
    /\ http_step' = NoHttp
    /\ UNCHANGED auxVars
    /\ UNCHANGED <<cfgVars, sessVars, running, probes, reported, envVars,
                   client_state, main_pc, cmd_pc, cmd_client, ev_event, cmd,
                   cmd_result, hp, n_events, n_cmds, obs, runs>>

\* if client.is_none() { client_state.lock().retry_init().await; .. }
EvRetryInit ==
    /\ Alive
    /\ ev_pc = "need_client"
    /\ init_owner = None
    /\ IF client_state = "Client"
       THEN /\ ev_client' = TRUE
            /\ ev_pc' = "dispatch"
            /\ UNCHANGED <<init_owner, init_pc, n_inits>>
       ELSE /\ n_inits < MaxInits
            /\ n_inits' = n_inits + 1
            /\ init_owner' = "ev"
            /\ init_pc' = "auth"
            /\ ev_pc' = "init"
            /\ UNCHANGED ev_client
    /\ http_step' = NoHttp
    /\ UNCHANGED auxVars
    /\ UNCHANGED <<cfgVars, sessVars, running, probes, reported, envVars,
                   client_state, main_pc, cmd_pc, cmd_client, ev_event, cmd,
                   cmd_result, hp, n_events, n_cmds, obs, runs>>

\* What the session has last been told once the running event loop has
\* matched event e: a phase report counts when its phase is not the
\* recorded one.
ReportedAfter(e) ==
    IF running /\ e.type = "ClientInfo" /\ e.loop_state # loop_state
    THEN Told(e.loop_state,
              IF e.loop_state = "Menus" THEN None ELSE e.maybe_match_id)
    ELSE reported

\* EvDispatch with the duplicate test on the pair (phase, match id).
EvDispatch_ComparesMatchId ==
    /\ Alive
    /\ ev_pc = "dispatch"
    /\ IF ~running
       THEN /\ ev_pc' = "done"
            /\ UNCHANGED <<sessVars, runs>>
       ELSE IF ev_event.type = "EntitlementsTokenChanged"
            THEN /\ auth' = ev_event.auth
                 /\ ev_pc' = "next"
                 /\ UNCHANGED <<loop_state, current_match_id, runs>>
            ELSE IF loop_state = ev_event.loop_state
                    /\ current_match_id = ev_event.maybe_match_id
                 THEN /\ ev_pc' = "next"
                      /\ UNCHANGED <<sessVars, runs>>
                 ELSE /\ loop_state' = ev_event.loop_state
                      /\ runs' = RunsAfterSet(ev_event.loop_state)
                      /\ ev_pc' = "set_match"
                      /\ UNCHANGED <<auth, current_match_id>>
    /\ reported' = ReportedAfter(ev_event)
    /\ http_step' = NoHttp
    /\ UNCHANGED auxVars
    /\ UNCHANGED <<cfgVars, running, probes, envVars, client_state, init_owner,
                   init_pc, main_pc, cmd_pc, ev_client, cmd_client, ev_event,
                   cmd, cmd_result, hp, cntVars, obs>>

\* EvDispatch without the duplicate test.
EvDispatch_NoDuplicateCheck ==
    /\ Alive
    /\ ev_pc = "dispatch"
    /\ IF ~running
       THEN /\ ev_pc' = "done"
            /\ UNCHANGED <<sessVars, runs>>
       ELSE IF ev_event.type = "EntitlementsTokenChanged"
            THEN /\ auth' = ev_event.auth
                 /\ ev_pc' = "next"
                 /\ UNCHANGED <<loop_state, current_match_id, runs>>
            ELSE IF FALSE
                 THEN /\ ev_pc' = "next"
                      /\ UNCHANGED <<sessVars, runs>>
                 ELSE /\ loop_state' = ev_event.loop_state
                      /\ runs' = RunsAfterSet(ev_event.loop_state)
                      /\ ev_pc' = "set_match"
                      /\ UNCHANGED <<auth, current_match_id>>
    /\ reported' = ReportedAfter(ev_event)
    /\ http_step' = NoHttp
    /\ UNCHANGED auxVars
    /\ UNCHANGED <<cfgVars, running, probes, envVars, client_state, init_owner,
                   init_pc, main_pc, cmd_pc, ev_client, cmd_client, ev_event,
                   cmd, cmd_result, hp, cntVars, obs>>

\* The running check and the match on the event, up to and including the
\* first write of the arm (auth, or set_loop_state).
EvDispatch ==
    /\ Alive
    /\ ev_pc = "dispatch"
    /\ IF ~running
       THEN /\ ev_pc' = "done"
            /\ UNCHANGED <<sessVars, runs>>
       ELSE IF ev_event.type = "EntitlementsTokenChanged"
            THEN /\ auth' = ev_event.auth
                 /\ ev_pc' = "next"
                 /\ UNCHANGED <<loop_state, current_match_id, runs>>
            ELSE IF loop_state = ev_event.loop_state
                 THEN /\ ev_pc' = "next"
                      /\ UNCHANGED <<sessVars, runs>>
                 ELSE /\ loop_state' = ev_event.loop_state
                      /\ runs' = RunsAfterSet(ev_event.loop_state)
                      /\ ev_pc' = "set_match"
                      /\ UNCHANGED <<auth, current_match_id>>
    /\ reported' = ReportedAfter(ev_event)
    /\ http_step' = NoHttp
    /\ UNCHANGED auxVars
    /\ UNCHANGED <<cfgVars, running, probes, envVars, client_state, init_owner,
                   init_pc, main_pc, cmd_pc, ev_client, cmd_client, ev_event,
                   cmd, cmd_result, hp, cntVars, obs>>

\* EvSetMatch that keeps the match id when the phase becomes Menus.
EvSetMatch_KeepsMatchId ==
    /\ Alive
    /\ ev_pc = "set_match"
    /\ current_match_id' = IF ev_event.loop_state = "Menus"
                           THEN current_match_id
                           ELSE ev_event.maybe_match_id
    /\ IF ev_event.loop_state = "Pregame"
       THEN /\ hp' = HpEntered(TRUE)
            /\ ev_pc' = "hp"
       ELSE /\ ev_pc' = "next"
            /\ UNCHANGED hp
    /\ http_step' = NoHttp
    /\ UNCHANGED auxVars
    /\ UNCHANGED <<cfgVars, loop_state, auth, running, probes, reported,
                   envVars, client_state, init_owner, init_pc, main_pc, cmd_pc,
                   ev_client, cmd_client, ev_event, cmd, cmd_result, cntVars,
                   obs, runs>>

\* The second write of the arm: *client.current_match_id() = ..; and for
\* Pregame the call of handle_pregame(true).
EvSetMatch ==
    /\ Alive
    /\ ev_pc = "set_match"
    /\ current_match_id' = IF ev_event.loop_state = "Menus"
                           THEN None
                           ELSE ev_event.maybe_match_id
    /\ IF ev_event.loop_state = "Pregame"
       THEN /\ hp' = HpEntered(TRUE)
            /\ ev_pc' = "hp"
       ELSE /\ ev_pc' = "next"
            /\ UNCHANGED hp
    /\ http_step' = NoHttp
    /\ UNCHANGED auxVars
    /\ UNCHANGED <<cfgVars, loop_state, auth, running, probes, reported,
                   envVars, client_state, init_owner, init_pc, main_pc, cmd_pc,
                   ev_client, cmd_client, ev_event, cmd, cmd_result, cntVars,
                   obs, runs>>

\* ------------------------------------------------------------------------
\* The command handler task (spawn_cmd_handler) and the handle
\* ------------------------------------------------------------------------
\* if client.is_none() { client_state.lock().retry_init().await; .. }
CmdRetryInit ==
    /\ Alive
    /\ cmd_pc = "top"
    /\ init_owner = None
    /\ IF client_state = "Client"
       THEN /\ cmd_client' = TRUE
            /\ cmd_pc' = "recv"
            /\ UNCHANGED <<init_owner, init_pc, n_inits>>
       ELSE \* retries are counted up to MaxInits while the handle lives;
            \* after the drop the loop's retrying is followed without end
            /\ n_inits < MaxInits \/ ~handle_alive
            /\ n_inits' = IF n_inits < MaxInits THEN n_inits + 1 ELSE n_inits
            /\ init_owner' = "cmd"
            /\ init_pc' = "auth"
            /\ cmd_pc' = "init"
            /\ UNCHANGED cmd_client
    /\ http_step' = NoHttp
    /\ UNCHANGED auxVars
    /\ UNCHANGED <<cfgVars, sessVars, running, probes, reported, envVars,
                   client_state, main_pc, ev_pc, ev_client, ev_event, cmd,
                   cmd_result, hp, n_events, n_cmds, obs, runs>>

\* cmd_rx.recv().await yields Some(cmd)
CmdRecv ==
    /\ Alive
    /\ cmd_pc = "recv"
    /\ cmd_queue # <<>>
    /\ cmd' = Head(cmd_queue)
    /\ UNCHANGED cmd_result
    /\ cmd_queue' = Tail(cmd_queue)
    /\ cmd_pc' = "exec"
    /\ http_step' = NoHttp
    /\ UNCHANGED auxVars
    /\ UNCHANGED <<cfgVars, sessVars, running, probes, reported, INTERRUPT,
                   handle_alive, caller, client_state, init_owner, init_pc,
                   main_pc, ev_pc, ev_client, cmd_client, ev_event, hp,
                   cntVars, obs, runs>>

\* cmd_rx.recv().await yields None: every Sender was dropped
CmdChannelClosed ==
    /\ Alive
    /\ cmd_pc = "recv"
    /\ cmd_queue = <<>>
    /\ ~handle_alive
    /\ running' = FALSE
    /\ cmd_pc' = "done"
    /\ UNCHANGED <<probes, reported>>
    /\ http_step' = NoHttp
    /\ UNCHANGED auxVars
    /\ UNCHANGED <<cfgVars, sessVars, envVars, client_state, init_owner,
                   init_pc, main_pc, ev_pc, ev_client, cmd_client, ev_event,
                   cmd, cmd_result, hp, cntVars, obs, runs>>

\* The command handler that puts a failed command back into the channel.
CmdExec_RetriesFailedCommand(r) ==
    LET op == IF cmd = "QuitPregame" THEN "quit_pregame" ELSE "quit_ingame"
        c == ApiSent(op, current_match_id, None)
        sent == current_match_id # None
        result == IF sent THEN r ELSE "Err"
    IN
    /\ Alive
    /\ cmd_pc = "exec"
    /\ http_step' = IF sent THEN c ELSE NoHttp
    /\ UNCHANGED auxVars
    /\ cmd' = None
    /\ cmd_result' = result
    /\ cmd_pc' = "recv"
    /\ cmd_queue' = IF result = "Err" THEN <<cmd>> \o cmd_queue
                    ELSE cmd_queue
    /\ UNCHANGED <<cfgVars, sessVars, running, probes, reported, INTERRUPT,
                   handle_alive, caller, client_state, init_owner, init_pc,
                   main_pc, ev_pc, ev_client, cmd_client, ev_event, hp,
                   cntVars, obs, runs>>

\* The command handler that records the menus once a quit request succeeded.
CmdExec_ResetsPhase(r) ==
    LET op == IF cmd = "QuitPregame" THEN "quit_pregame" ELSE "quit_ingame"
        c == ApiSent(op, current_match_id, None)
        sent == current_match_id # None
    IN
    /\ Alive
    /\ cmd_pc = "exec"
    /\ http_step' = IF sent THEN c ELSE NoHttp
    /\ UNCHANGED auxVars
    /\ cmd' = None
    /\ cmd_result' = IF sent THEN r ELSE "Err"
    /\ cmd_pc' = "recv"
    /\ IF sent /\ r = "Ok"
       THEN loop_state' = "Menus" /\ current_match_id' = None
       ELSE UNCHANGED <<loop_state, current_match_id>>
    /\ UNCHANGED <<cfgVars, auth, running, probes, reported, envVars,
                   client_state, init_owner, init_pc, main_pc, ev_pc,
                   ev_client, cmd_client, ev_event, hp, cntVars, obs, runs>>

\* client.quit_pregame().await / client.quit_ingame().await
CmdExec(r) ==
    LET op == IF cmd = "QuitPregame" THEN "quit_pregame" ELSE "quit_ingame"
        c == ApiSent(op, current_match_id, None)
        sent == current_match_id # None
    IN
    /\ Alive
    /\ cmd_pc = "exec"
    /\ http_step' = IF sent THEN c ELSE NoHttp
    /\ UNCHANGED auxVars
    /\ cmd' = None
    /\ cmd_result' = IF sent THEN r ELSE "Err"
    /\ cmd_pc' = "recv"
    /\ UNCHANGED <<cfgVars, sessVars, running, probes, reported, envVars,
                   client_state, init_owner, init_pc, main_pc, ev_pc,
                   ev_client, cmd_client, ev_event, hp, cntVars, obs, runs>>

\* ValorantClientHandle::quit_pregame / quit_game:
\* self.tx.send(..).await.unwrap()
Enqueue(c) ==
    /\ main_pc = "spawned"
    /\ handle_alive
    /\ caller.pc = "idle"
    /\ n_cmds < MaxCmds
    /\ n_cmds' = n_cmds + 1
    /\ SendOutcome(c)
    /\ http_step' = NoHttp
    /\ UNCHANGED auxVars
    /\ UNCHANGED <<cfgVars, sessVars, running, probes, reported, INTERRUPT,
                   handle_alive, ctlVars, cmd, cmd_result, hp, n_events,
                   n_inits, obs, runs>>

\* The send of a waiting caller is polled again.
EnqueueResumes ==
    /\ caller.pc = "sending"
    /\ \/ cmd_pc \in {"done", "panicked"}
       \/ Len(cmd_queue) < CmdCapacity
    /\ SendOutcome(caller.cmd)
    /\ http_step' = NoHttp
    /\ UNCHANGED auxVars
    /\ UNCHANGED <<cfgVars, sessVars, running, probes, reported, INTERRUPT,
                   handle_alive, ctlVars, cmd, cmd_result, hp, cntVars, obs,
                   runs>>

\* The application drops its ValorantClientHandle.
DropHandle ==
    /\ main_pc = "spawned"
    /\ handle_alive
    /\ caller.pc # "sending"
    /\ handle_alive' = FALSE
    /\ UNCHANGED caller
    /\ http_step' = NoHttp
    /\ UNCHANGED auxVars
    /\ UNCHANGED <<cfgVars, sessVars, running, probes, reported, INTERRUPT,
                   cmd_queue, ctlVars, cmd, cmd_result, hp, cntVars, obs,
                   runs>>

\* main.rs: INTERRUPT.store(true) when the operator opens the menu
SetInterrupt ==
    /\ Alive
    /\ ~INTERRUPT
    /\ INTERRUPT' = TRUE
    /\ http_step' = NoHttp
    /\ UNCHANGED auxVars
    /\ UNCHANGED <<cfgVars, sessVars, running, probes, reported, cmd_queue,
                   handle_alive, caller, ctlVars, cmd, cmd_result, hp, cntVars,
                   obs, runs>>

\* main.rs: INTERRUPT.store(false) when the menu is left
ClearInterrupt ==
    /\ Alive
    /\ INTERRUPT
    /\ INTERRUPT' = FALSE
    /\ http_step' = NoHttp
    /\ UNCHANGED auxVars
    /\ UNCHANGED <<cfgVars, sessVars, running, probes, reported, cmd_queue,
                   handle_alive, caller, ctlVars, cmd, cmd_result, hp, cntVars,
                   obs, runs>>

Commands == {"QuitPregame", "QuitGame"}

Next ==
    \/ \E connected \in BOOLEAN : Start(connected)
    \/ InitOk
    \/ \E r \in TypedResults : InitFetchAuth(r)
    \/ \E r \in TypedResults, f \in BOOLEAN :
          InitSessions(r, f)
    \/ \E r \in TypedResults, m \in MatchIds :
          InitCurrentPregame(r, m)
    \/ \E r \in TypedResults, m \in MatchIds :
          InitCurrentIngame(r, m)
    \/ HpEntry
    \/ \E r \in TypedResults, url \in MapUrls : HpFetch(r, url)
    \/ HpWait
    \/ \E r \in StatusResults : HpLock(r)
    \/ HpExhausted
    \/ \E e \in ValorantEvents : EvNext(e)
    \/ EvStreamEnded
    \/ EvRetryInit
    \/ EvDispatch
    \/ EvSetMatch
    \/ SetInterrupt
    \/ ClearInterrupt

\* The engine: bootstrap, the event handler task and its automation
\* sequences, the operator's interrupt flag.
Spec == Init /\ [][Next]_vars

\* The whole session: the engine together with the command handler task and
\* the handle, from one configuration.
OneConfig ==
    /\ config.map_agent_config.kind = "PerSelectedMap"
    /\ GAME_MAPS = <<Ascent, Bind>>

InitSession ==
    /\ Init
    /\ OneConfig

NextSession ==
    \/ Next
    \/ CmdRetryInit
    \/ CmdRecv
    \/ CmdChannelClosed
    \/ \E r \in StatusResults : CmdExec(r)
    \/ \E c \in Commands : Enqueue(c)
    \/ DropHandle

SpecSession == InitSession /\ [][NextSession]_vars

\* ------------------------------------------------------------------------
\* The handle and the command handler on their own: the session after a
\* bootstrap outside of any match, with a silent event stream, and a command
\* channel that is empty or holds CmdCapacity commands (the application
\* issued them while the command handler was busy).
\* ------------------------------------------------------------------------
Bootstrapped ==
    /\ config \in Configs
    /\ GAME_MAPS \in MapCatalogs
    /\ OneConfig
    /\ client_state = "Client"
    /\ loop_state = "Menus"
    /\ current_match_id = None
    /\ auth = BootAuth
    /\ running = TRUE
    /\ probes = NoProbes
    /\ reported = Told("Menus", None)
    /\ INTERRUPT = FALSE
    /\ main_pc = "spawned"
    /\ ev_pc = "next"
    /\ cmd_pc = "top"
    /\ ev_client = FALSE
    /\ cmd_client = FALSE
    /\ ev_event = NoEvent
    /\ cmd = None
    /\ cmd_result = None
    /\ init_owner = None
    /\ init_pc = None
    /\ hp = HpIdle
    /\ handle_alive = TRUE
    /\ caller = CallerIdle
    /\ http_step = NoHttp
    /\ n_events = 0
    /\ n_cmds = 0
    /\ n_inits = 1
    /\ obs = ObsIdle
    /\ runs = 0
    /\ succ = NoSuccessor

InitHandle ==
    /\ Bootstrapped
    /\ cmd_queue \in {<<>>, [k \in 1..CmdCapacity |-> "QuitPregame"]}
    /\ HttpInit
    /\ StreamInit

NextHandle ==
    \/ CmdRetryInit
    \/ CmdRecv
    \/ CmdChannelClosed
    \/ \E r \in StatusResults : CmdExec(r)
    \/ \E c \in Commands : Enqueue(c)
    \/ EnqueueResumes
    \/ DropHandle

SpecHandle == InitHandle /\ [][NextHandle]_vars

\* ------------------------------------------------------------------------
\* The command loop from the return of start to its end, under a fair
\* scheduler: start has returned a handle with the session constructed or,
\* after a failed bootstrap, unconstructed.
\* ------------------------------------------------------------------------
Unbootstrapped ==
    /\ config \in Configs
    /\ GAME_MAPS \in MapCatalogs
    /\ OneConfig
    /\ client_state = "Parts"
    /\ loop_state = "Menus"
    /\ current_match_id = None
    /\ auth = NoAuth
    /\ running = TRUE
    /\ probes = NoProbes
    /\ reported = Told("Menus", None)
    /\ INTERRUPT = FALSE
    /\ main_pc = "spawned"
    /\ ev_pc = "next"
    /\ cmd_pc = "top"
    /\ ev_client = FALSE
    /\ cmd_client = FALSE
    /\ ev_event = NoEvent
    /\ cmd = None
    /\ cmd_result = None
    /\ init_owner = None
    /\ init_pc = None
    /\ hp = HpIdle
    /\ handle_alive = TRUE
    /\ caller = CallerIdle
    /\ http_step = NoHttp
    /\ n_events = 0
    /\ n_cmds = 0
    /\ n_inits = 1
    /\ obs = ObsIdle
    /\ runs = 0
    /\ succ = NoSuccessor

InitDrop ==
    /\ Bootstrapped \/ Unbootstrapped
    /\ cmd_queue = <<>>
    /\ HttpInit
    /\ StreamInit

\* The steps of the command handler task, its bootstrap retries included.
CmdTask ==
    \/ CmdRetryInit
    \/ \E r \in TypedResults : InitFetchAuth(r)
    \/ \E r \in TypedResults, f \in BOOLEAN : InitSessions(r, f)
    \/ \E r \in TypedResults, m \in MatchIds : InitCurrentPregame(r, m)
    \/ \E r \in TypedResults, m \in MatchIds : InitCurrentIngame(r, m)
    \/ InitOk
    \/ HpEntry
    \/ \E r \in TypedResults, url \in MapUrls : HpFetch(r, url)
    \/ \E r \in StatusResults : HpLock(r)
    \/ HpExhausted
    \/ CmdRecv
    \/ CmdChannelClosed
    \/ \E r \in StatusResults : CmdExec(r)

NextDrop ==
    \/ CmdTask
    \/ \E c \in Commands : Enqueue(c)
    \/ DropHandle

\* The runtime schedules the command handler task whenever it can step.
SpecDrop == InitDrop /\ [][NextDrop]_vars /\ WF_vars(CmdTask)

\* ------------------------------------------------------------------------
\* The API operations on their own: one call per behaviour, for every answer
\* of the network, every body and a present or absent match id.
\* ------------------------------------------------------------------------
engineVars == <<config, GAME_MAPS, client_state, loop_state, current_match_id,
                auth, running, probes, reported, INTERRUPT, main_pc, ev_pc,
                cmd_pc, ev_client, cmd_client, ev_event, cmd, cmd_result,
                init_owner, init_pc, hp,
                cmd_queue, handle_alive, caller, http_step, n_events, n_cmds,
                n_inits, obs, runs, succ>>

InitHttp ==
    /\ EngineInit
    /\ OneConfig
    /\ net_outs \in NetScripts
    /\ net_decodes \in BOOLEAN
    /\ net_match \in {None, "m1"}
    /\ last_call = NoCall
    /\ StreamInit

Call(op) ==
    CASE op = "sessions_info" -> sessions_info(net_outs, net_decodes)
      [] op = "fetch_auth_tokens" -> fetch_auth_tokens(net_outs, net_decodes)
      [] op = "quit_pregame" -> quit_pregame(net_match, net_outs)
      [] op = "lock_agent" -> lock_agent(net_match, "Astra", net_outs)
      [] op = "get_pregame_match" ->
            get_pregame_match(net_match, net_outs, net_decodes)
      [] op = "current_pregame" -> current_pregame(net_outs, net_decodes)
      [] op = "quit_ingame" -> quit_ingame(net_match, net_outs)
      [] op = "current_ingame" -> current_ingame(net_outs, net_decodes)

HttpApply(op) ==
    /\ last_call = NoCall
    /\ last_call' = Call(op)
    /\ UNCHANGED <<engineVars, streamVars, net_outs, net_decodes, net_match>>

NextHttp == \E op \in ApiOps : HttpApply(op)

SpecHttp == InitHttp /\ [][NextHttp]_vars

\* ------------------------------------------------------------------------
\* The event stream on its own: the proxy task between the websocket and the
\* channel, and the consumer calling next() and close().
\* ------------------------------------------------------------------------
\* The events of a backlog: a Pregame and a Menus report in turn.
BacklogEvent(k) ==
    IF k % 2 = 1
    THEN Decode(StatusFrame("Create", "u1", "PREGAME", "m1", 1))
    ELSE Decode(StatusFrame("Create", "u1", "MENUS", "", 1))

\* The stream whose consumer has taken nothing while ChannelCapacity
\* decodable messages arrived (the event loop is inside handle_pregame or
\* init): the channel is full.
StreamBacklog ==
    /\ n_frames = 0
    /\ arrived = [k \in 1..ChannelCapacity |-> BacklogEvent(k)]
    /\ last_event = BacklogEvent(ChannelCapacity)
    /\ val_event = ToValorantEvent(BacklogEvent(ChannelCapacity))
    /\ proxy_pc = "receive"
    /\ chan = [k \in 1..ChannelCapacity |->
                [ev |-> ToValorantEvent(BacklogEvent(k)),
                 src |-> BacklogEvent(k)]]
    /\ rx = "open"
    /\ stream_done = FALSE
    /\ yielded = <<>>
    /\ fate = "decoded"
    /\ tracked = Queued(ChannelCapacity)
    /\ ws_text = NoText
    /\ conn_pc = "connected"
    /\ subscribed = Subscriptions

InitStream ==
    /\ EngineInit
    /\ OneConfig
    /\ HttpInit
    /\ StreamInit \/ StreamBacklog

\* The proxy without the comparison with last_event.
ProxyRecvText_NoDuplicateTest(text) ==
    /\ proxy_pc = "receive"
    /\ n_frames < MaxFrames
    /\ n_frames' = n_frames + 1
    /\ arrived' = Append(arrived, Decode(text))
    /\ LET event == Decode(text) IN
       IF text.shape = "empty"
       THEN /\ fate' = "empty"
            /\ UNCHANGED <<last_event, val_event, proxy_pc, tracked>>
       ELSE IF event = NoRelevant
       THEN /\ fate' = "undecodable"
            /\ UNCHANGED <<last_event, val_event, proxy_pc, tracked>>
       ELSE /\ fate' = "decoded"
            /\ tracked' = Pending
            /\ last_event' = event
            /\ val_event' = ToValorantEvent(event)
            /\ proxy_pc' = "send"
    /\ ws_text' = text
    /\ UNCHANGED <<engineVars, httpVars, connVars, chan, rx, stream_done,
                   yielded>>

\* Message::Binary or Message::Text
ProxyRecvText(text) ==
    /\ proxy_pc = "receive"
    /\ n_frames < MaxFrames
    /\ n_frames' = n_frames + 1
    /\ arrived' = Append(arrived, Decode(text))
    /\ LET event == Decode(text) IN
       IF text.shape = "empty"
       THEN /\ fate' = "empty"
            /\ UNCHANGED <<last_event, val_event, proxy_pc, tracked>>
       ELSE IF event = NoRelevant
       THEN /\ fate' = "undecodable"
            /\ UNCHANGED <<last_event, val_event, proxy_pc, tracked>>
       ELSE IF last_event # NoRelevant /\ last_event = event
       THEN /\ fate' = "duplicate"
            /\ UNCHANGED <<last_event, val_event, proxy_pc, tracked>>
       ELSE /\ fate' = "decoded"
            /\ tracked' = Pending
            /\ last_event' = event
            /\ val_event' = ToValorantEvent(event)
            /\ proxy_pc' = "send"
    /\ ws_text' = text
    /\ UNCHANGED <<engineVars, httpVars, connVars, chan, rx, stream_done,
                   yielded>>

\* msg.into_text().unwrap() of a Binary message that is not UTF-8: the task
\* panics and tx is dropped.
ProxyRecvInvalidUtf8 ==
    /\ proxy_pc = "receive"
    /\ proxy_pc' = "ended"
    /\ fate' = "panic"
    /\ ws_text' = NoText
    /\ UNCHANGED <<engineVars, httpVars, tracked, connVars, arrived, n_frames,
                   last_event, val_event, chan, rx, stream_done, yielded>>

\* Ping, Pong, Frame: _ => ()
ProxyRecvOther ==
    /\ proxy_pc = "receive"
    /\ n_frames < MaxFrames
    /\ n_frames' = n_frames + 1
    /\ fate' = "ignored"
    /\ ws_text' = NoText
    /\ UNCHANGED <<engineVars, httpVars, tracked, connVars, arrived,
                   last_event, val_event, proxy_pc, chan, rx, stream_done,
                   yielded>>

\* Message::Close(info) => break
ProxyRecvClose ==
    /\ proxy_pc = "receive"
    /\ proxy_pc' = "ended"
    /\ fate' = "close"
    /\ ws_text' = NoText
    /\ UNCHANGED <<engineVars, httpVars, tracked, connVars, arrived, n_frames,
                   last_event, val_event, chan, rx, stream_done, yielded>>

\* The proxy that goes on receiving after a transport error.
ProxyWsError_Continues ==
    /\ proxy_pc = "receive"
    /\ fate' = "error"
    /\ ws_text' = NoText
    /\ UNCHANGED <<engineVars, httpVars, tracked, connVars, arrived, n_frames,
                   last_event, val_event, proxy_pc, chan, rx, stream_done,
                   yielded>>

\* ws.next() yields Some(Err(err))
ProxyWsError ==
    /\ proxy_pc = "receive"
    /\ proxy_pc' = "ended"
    /\ fate' = "error"
    /\ ws_text' = NoText
    /\ UNCHANGED <<engineVars, httpVars, tracked, connVars, arrived, n_frames,
                   last_event, val_event, chan, rx, stream_done, yielded>>

\* ws.next() yields None
ProxyWsEnded ==
    /\ proxy_pc = "receive"
    /\ proxy_pc' = "ended"
    /\ fate' = "ended"
    /\ ws_text' = NoText
    /\ UNCHANGED <<engineVars, httpVars, tracked, connVars, arrived, n_frames,
                   last_event, val_event, chan, rx, stream_done, yielded>>

\* tx.try_send(val_event.clone()) is Ok
ProxySend ==
    /\ proxy_pc = "send"
    /\ rx = "open"
    /\ Len(chan) < ChannelCapacity
    /\ chan' = Append(chan, [ev |-> val_event, src |-> last_event])
    /\ proxy_pc' = "receive"
    /\ tracked' = Queued(Len(chan) + 1)
    /\ ws_text' = NoText
    /\ UNCHANGED <<engineVars, httpVars, connVars, arrived, n_frames,
                   last_event, val_event, rx, stream_done, yielded, fate>>

\* The proxy that gives up the event when the channel is full.
ProxySendFull_DropsEvent ==
    /\ proxy_pc = "send"
    /\ rx = "open"
    /\ Len(chan) = ChannelCapacity
    /\ proxy_pc' = "receive"
    /\ fate' = "backoff"
    /\ tracked' = Dropped
    /\ ws_text' = NoText
    /\ UNCHANGED <<engineVars, httpVars, connVars, arrived, n_frames,
                   last_event, val_event, chan, rx, stream_done, yielded>>

\* TrySendError::Full: sleep 100 ms, then try_send again
ProxySendFull ==
    /\ proxy_pc = "send"
    /\ rx = "open"
    /\ Len(chan) = ChannelCapacity
    /\ fate' = "backoff"
    /\ ws_text' = NoText
    /\ UNCHANGED <<engineVars, httpVars, tracked, connVars, arrived, n_frames,
                   last_event, val_event, proxy_pc, chan, rx, stream_done,
                   yielded>>

\* The proxy that drops the event and goes on receiving when the receiver
\* is closed.
ProxySendClosed_KeepsReceiving ==
    /\ proxy_pc = "send"
    /\ rx = "closed"
    /\ proxy_pc' = "receive"
    /\ tracked' = Dropped
    /\ ws_text' = NoText
    /\ UNCHANGED <<engineVars, httpVars, connVars, arrived, n_frames,
                   last_event, val_event, chan, rx, stream_done, yielded,
                   fate>>

\* TrySendError::Closed: ws.close(None), break 'receive
ProxySendClosed ==
    /\ proxy_pc = "send"
    /\ rx = "closed"
    /\ proxy_pc' = "ended"
    /\ tracked' = Dropped
    /\ ws_text' = NoText
    /\ UNCHANGED <<engineVars, httpVars, connVars, arrived, n_frames,
                   last_event, val_event, chan, rx, stream_done, yielded,
                   fate>>

\* next() returns Some(event)
StreamNext ==
    /\ rx = "open"
    /\ chan # <<>>
    /\ Len(yielded) < MaxTakes
    /\ yielded' = Append(yielded, Head(chan))
    /\ chan' = Tail(chan)
    /\ tracked' = TrackedAfterNext
    /\ ws_text' = NoText
    /\ UNCHANGED <<engineVars, httpVars, connVars, arrived, n_frames,
                   last_event, val_event, proxy_pc, rx, stream_done, fate>>

\* next() returns None: rx is None, or the channel is empty and tx dropped
StreamNextNone ==
    /\ \/ rx = "closed"
       \/ chan = <<>> /\ proxy_pc = "ended"
    /\ stream_done' = TRUE
    /\ ws_text' = NoText
    /\ UNCHANGED <<engineVars, httpVars, tracked, connVars, arrived, n_frames,
                   last_event, val_event, proxy_pc, chan, rx, yielded, fate>>

\* close(): rx.take(), rx.close(); the receiver is dropped with what it holds
StreamClose ==
    /\ rx = "open"
    /\ rx' = "closed"
    /\ chan' = <<>>
    /\ tracked' = IF tracked.st = "queued" THEN Dropped ELSE tracked
    /\ ws_text' = NoText
    /\ UNCHANGED <<engineVars, httpVars, connVars, arrived, n_frames,
                   last_event, val_event, proxy_pc, stream_done, yielded,
                   fate>>

NextStream ==
    \/ \E text \in WsTexts : ProxyRecvText(text)
    \/ ProxyRecvInvalidUtf8
    \/ ProxyRecvOther
    \/ ProxyRecvClose
    \/ ProxyWsError
    \/ ProxyWsEnded
    \/ ProxySend
    \/ ProxySendFull
    \/ ProxySendClosed
    \/ StreamNext
    \/ StreamNextNone
    \/ StreamClose

SpecStream == InitStream /\ [][NextStream]_vars

\* ------------------------------------------------------------------------
\* main.rs, the lifecycle loop: a Created signal received while a session
\* runs. ValorantClientHandle::start builds the next session (connect, init
\* with its probes and the sequence of a pregame match it finds) on the main
\* task while the tasks of the running session go on; when start returns Ok
\* the new handle is stored over the old one, which is dropped.
\* ------------------------------------------------------------------------
\* A step of the next session's start: its locals and the request it sends.
SuccStep(s, req) ==
    /\ succ' = s
    /\ http_step' = req
    /\ UNCHANGED <<httpVars, streamVars>>
    /\ UNCHANGED <<cfgVars, sessVars, running, probes, reported, INTERRUPT,
                   cmd_queue, caller, client_state, init_owner, init_pc,
                   ev_pc, cmd_pc, ev_client, cmd_client, ev_event, cmd,
                   cmd_result, hp, cntVars, obs, runs>>

\* Some(LockfileEvent::Created(lockfile)) => ValorantClient::start(..)
LockfileCreated ==
    /\ main_pc = "spawned"
    /\ handle_alive
    /\ succ.pc = None
    /\ SuccStep([NoSuccessor EXCEPT !.pc = "start"], NoHttp)
    /\ UNCHANGED <<main_pc, handle_alive>>

\* start: ValorantEventStream::connect(&lockfile).await?; on Err main logs
\* and goes on to the next lockfile event, the stored handle is kept
SuccStart(connected) ==
    /\ Alive
    /\ succ.pc = "start"
    /\ SuccStep([succ EXCEPT !.pc = IF connected THEN "auth" ELSE None],
                NoHttp)
    /\ UNCHANGED <<main_pc, handle_alive>>

\* init: Self::fetch_auth_tokens(&client, &lockfile).await?
SuccFetchAuth(r) ==
    /\ Alive
    /\ succ.pc = "auth"
    /\ SuccStep([succ EXCEPT !.pc = IF r = "Ok" THEN "sessions" ELSE "return"],
                ApiSent("fetch_auth_tokens", None, None))
    /\ UNCHANGED <<main_pc, handle_alive>>

\* init: sessions_info, the Valorant session, and Self::new(..)
SuccSessions(r, found) ==
    /\ Alive
    /\ succ.pc = "sessions"
    /\ SuccStep([succ EXCEPT
                   !.pc = IF r = "Ok" /\ found THEN "pregame" ELSE "return"],
                ApiSent("sessions_info", None, None))
    /\ UNCHANGED <<main_pc, handle_alive>>

\* init: match this.current_pregame().await { Ok(pregame) => .. }
SuccCurrentPregame(r, m) ==
    /\ Alive
    /\ succ.pc = "pregame"
    /\ SuccStep(IF r = "Ok"
                THEN [succ EXCEPT !.pc = "entry", !.match = m]
                ELSE [succ EXCEPT !.pc = "ingame"],
                ApiSent("current_pregame", None, None))
    /\ UNCHANGED <<main_pc, handle_alive>>

\* init: let ingame = this.current_ingame().await
SuccCurrentIngame(r, m) ==
    /\ Alive
    /\ succ.pc = "ingame"
    /\ SuccStep([succ EXCEPT !.pc = "return",
                             !.match = IF r = "Ok" THEN m ELSE None],
                ApiSent("current_ingame", None, None))
    /\ UNCHANGED <<main_pc, handle_alive>>

\* handle_pregame(false) of the next session: the INTERRUPT check
SuccEntry ==
    /\ Alive
    /\ succ.pc = "entry"
    /\ SuccStep([succ EXCEPT !.pc = IF INTERRUPT THEN "return" ELSE "fetch"],
                NoHttp)
    /\ UNCHANGED <<main_pc, handle_alive>>

\* handle_pregame(false) of the next session: get_pregame_match, the map
\* lookup with its Ascent fallback, config.get_agents(map.name)
SuccFetch(r, url) ==
    LET found == IF r = "Ok"
                 THEN {m \in Range(GAME_MAPS) : m.map_url = url}
                 ELSE {m \in Range(GAME_MAPS) : m.name = "Ascent"}
    IN
    /\ Alive
    /\ succ.pc = "fetch"
    /\ IF found = {}
       THEN \* .find(..).unwrap() on None, on the main task
            /\ SuccStep([succ EXCEPT !.pc = "panicked"],
                        ApiSent("get_pregame_match", succ.match, None))
            /\ main_pc' = "panicked"
       ELSE LET map == CHOOSE m \in found : TRUE IN
            /\ \E agents \in Config_get_agents(config, map.name) :
                 SuccStep([succ EXCEPT !.pc = "lock", !.agents = agents,
                                       !.i = 0],
                          ApiSent("get_pregame_match", succ.match, None))
            /\ UNCHANGED main_pc
    /\ UNCHANGED handle_alive

\* handle_pregame(false) of the next session: one lock_agent(agents[i])
SuccLock(r) ==
    /\ Alive
    /\ succ.pc = "lock"
    /\ succ.i < Len(succ.agents)
    /\ SuccStep(IF r = "Ok"
                THEN [succ EXCEPT !.pc = "return", !.attempted = TRUE]
                ELSE [succ EXCEPT !.i = succ.i + 1, !.attempted = TRUE],
                ApiSent("lock_agent", succ.match, succ.agents[succ.i + 1]))
    /\ UNCHANGED <<main_pc, handle_alive>>

\* handle_pregame(false) of the next session: no candidate is left
SuccExhausted ==
    /\ Alive
    /\ succ.pc = "lock"
    /\ succ.i >= Len(succ.agents)
    /\ SuccStep([succ EXCEPT !.pc = "return"], NoHttp)
    /\ UNCHANGED <<main_pc, handle_alive>>

\* start spawns the two handler tasks and returns Ok(handle);
\* *valorant_client.lock().unwrap() = Some(handle) drops the handle stored
\* before, the only Sender of the running session's command channel.
SuccSpawn ==
    /\ Alive
    /\ succ.pc = "return"
    /\ caller.pc # "sending"
    /\ SuccStep([succ EXCEPT !.pc = "spawned"], NoHttp)
    /\ handle_alive' = FALSE
    /\ UNCHANGED main_pc

InitReplace ==
    /\ Bootstrapped
    /\ cmd_queue = <<>>
    /\ HttpInit
    /\ StreamInit

NextReplace ==
    \/ LockfileCreated
    \/ \E connected \in BOOLEAN : SuccStart(connected)
    \/ \E r \in TypedResults : SuccFetchAuth(r)
    \/ \E r \in TypedResults, f \in BOOLEAN : SuccSessions(r, f)
    \/ \E r \in TypedResults, m \in MatchIds : SuccCurrentPregame(r, m)
    \/ \E r \in TypedResults, m \in MatchIds : SuccCurrentIngame(r, m)
    \/ SuccEntry
    \/ \E r \in TypedResults, url \in MapUrls : SuccFetch(r, url)
    \/ \E r \in StatusResults : SuccLock(r)
    \/ SuccExhausted
    \/ SuccSpawn
    \/ \E e \in ValorantEvents : EvNext(e)
    \/ EvStreamEnded
    \/ EvRetryInit
    \/ EvDispatch
    \/ EvSetMatch
    \/ HpEntry
    \/ \E r \in TypedResults, url \in MapUrls : HpFetch(r, url)
    \/ HpWait
    \/ \E r \in StatusResults : HpLock(r)
    \/ HpExhausted
    \/ CmdRetryInit
    \/ CmdChannelClosed

\* A session that runs, and the Created signal that replaces it.
SpecReplace == InitReplace /\ [][NextReplace]_vars

\* ------------------------------------------------------------------------
\* The event handler task consuming the event stream: what stream.next()
\* returns to the loop of spawn_event_handler is what the proxy task put on
\* the channel. The tokio scheduler keeps running the handler task, and every
\* request it awaits is answered.
\* ------------------------------------------------------------------------
\* stream.next().await yields None, and the loop goes on to its next turn.
EvNextNone_Continues ==
    /\ Alive
    /\ ev_pc = "next"
    /\ \/ rx = "closed"
       \/ chan = <<>> /\ proxy_pc = "ended"
    /\ stream_done' = TRUE
    /\ ev_pc' = "next"
    /\ http_step' = NoHttp
    /\ ws_text' = NoText
    /\ UNCHANGED <<httpVars, mainVars, tracked, connVars, arrived, n_frames,
                   last_event, val_event, proxy_pc, chan, rx, yielded, fate>>
    /\ UNCHANGED <<cfgVars, sessVars, running, probes, reported, envVars,
                   client_state, init_owner, init_pc, main_pc, cmd_pc,
                   ev_client, cmd_client, ev_event, cmd, cmd_result, hp,
                   cntVars, obs, runs>>

\* let Some(event) = stream.next().await else { break }: the channel is
\* empty and the proxy task has dropped tx (or rx was closed)
EvNextNone ==
    /\ Alive
    /\ ev_pc = "next"
    /\ \/ rx = "closed"
       \/ chan = <<>> /\ proxy_pc = "ended"
    /\ stream_done' = TRUE
    /\ ev_pc' = "done"
    /\ http_step' = NoHttp
    /\ ws_text' = NoText
    /\ UNCHANGED <<httpVars, mainVars, tracked, connVars, arrived, n_frames,
                   last_event, val_event, proxy_pc, chan, rx, yielded, fate>>
    /\ UNCHANGED <<cfgVars, sessVars, running, probes, reported, envVars,
                   client_state, init_owner, init_pc, main_pc, cmd_pc,
                   ev_client, cmd_client, ev_event, cmd, cmd_result, hp,
                   cntVars, obs, runs>>

\* let Some(event) = stream.next().await: the oldest queued event. The proxy
\* task receives at most MaxFrames messages, so n_events stays bounded.
EvNextQueued ==
    /\ Alive
    /\ ev_pc = "next"
    /\ rx = "open"
    /\ chan # <<>>
    /\ n_events' = n_events + 1
    /\ ev_event' = Head(chan).ev
    /\ chan' = Tail(chan)
    /\ yielded' = Append(yielded, Head(chan))
    /\ tracked' = TrackedAfterNext
    /\ obs' = ObsIdle
    /\ ev_pc' = IF ev_client THEN "dispatch" ELSE "need_client"
    /\ http_step' = NoHttp
    /\ ws_text' = NoText
    /\ UNCHANGED <<httpVars, mainVars, connVars, arrived, n_frames, last_event,
                   val_event, proxy_pc, rx, stream_done, fate>>
    /\ UNCHANGED <<cfgVars, sessVars, running, probes, reported, envVars,
                   client_state, init_owner, init_pc, main_pc, cmd_pc,
                   ev_client, cmd_client, cmd, cmd_result, hp, n_cmds, n_inits,
                   runs>>

\* The steps of the event handler task.
EvTask ==
    \/ EvNextQueued
    \/ EvNextNone
    \/ EvRetryInit
    \/ EvDispatch
    \/ EvSetMatch
    \/ HpEntry
    \/ \E r \in TypedResults, url \in MapUrls : HpFetch(r, url)
    \/ HpWait
    \/ \E r \in StatusResults : HpLock(r)
    \/ HpExhausted

InitConsume ==
    /\ Bootstrapped
    /\ cmd_queue = <<>>
    /\ HttpInit
    /\ StreamInit

\* The messages that arrive: status reports of two matches and of the menus.
ConsumeTexts ==
    {StatusFrame("Create", "u1", "PREGAME", "m1", 1),
     StatusFrame("Create", "u1", "MENUS", "", 1)}

NextConsume ==
    \/ \E text \in ConsumeTexts : ProxyRecvText(text)
    \/ ProxyWsError
    \/ ProxyWsEnded
    \/ ProxySend
    \/ EvNextQueued
    \/ EvNextNone
    \/ EvRetryInit
    \/ EvDispatch
    \/ EvSetMatch
    \/ HpEntry
    \/ \E r \in TypedResults, url \in MapUrls : HpFetch(r, url)
    \/ HpWait
    \/ \E r \in StatusResults : HpLock(r)
    \/ HpExhausted
    \/ DropHandle

SpecConsume ==
    /\ InitConsume
    /\ [][NextConsume]_vars
    /\ WF_vars(EvTask)

\* ------------------------------------------------------------------------
\* The event stream with a consumer that keeps calling next(): the tokio
\* scheduler runs the proxy task's retry whenever its timer fires, and the
\* consumer takes whatever the channel holds.
\* ------------------------------------------------------------------------
\* next() returns Some(event) once MaxTakes returned events are on record:
\* the event is taken and not recorded.
StreamNextMore ==
    /\ rx = "open"
    /\ chan # <<>>
    /\ Len(yielded) >= MaxTakes
    /\ chan' = Tail(chan)
    /\ tracked' = TrackedAfterNext
    /\ ws_text' = NoText
    /\ UNCHANGED <<engineVars, httpVars, connVars, arrived, n_frames,
                   last_event, val_event, proxy_pc, rx, stream_done, yielded,
                   fate>>

\* The full channel of StreamBacklog with one more message to come.
DeliverBacklog ==
    /\ n_frames = MaxFrames - 1
    /\ arrived = [k \in 1..ChannelCapacity |-> BacklogEvent(k)]
    /\ last_event = BacklogEvent(ChannelCapacity)
    /\ val_event = ToValorantEvent(BacklogEvent(ChannelCapacity))
    /\ proxy_pc = "receive"
    /\ chan = [k \in 1..ChannelCapacity |->
                [ev |-> ToValorantEvent(BacklogEvent(k)),
                 src |-> BacklogEvent(k)]]
    /\ rx = "open"
    /\ stream_done = FALSE
    /\ yielded = <<>>
    /\ fate = "decoded"
    /\ tracked = Queued(ChannelCapacity)
    /\ ws_text = NoText
    /\ conn_pc = "connected"
    /\ subscribed = Subscriptions

InitDeliver ==
    /\ EngineInit
    /\ OneConfig
    /\ HttpInit
    /\ StreamInit \/ DeliverBacklog

\* The messages that arrive: two status reports and a credentials refresh.
DeliverTexts ==
    {StatusFrame("Create", "u1", "PREGAME", "m1", 1),
     StatusFrame("Create", "u1", "MENUS", "", 1),
     TokenFrame("Update", NewAuth)}

NextDeliver ==
    \/ \E text \in DeliverTexts : ProxyRecvText(text)
    \/ ProxyRecvInvalidUtf8
    \/ ProxyRecvOther
    \/ ProxyRecvClose
    \/ ProxyWsError
    \/ ProxyWsEnded
    \/ ProxySend
    \/ ProxySendFull
    \/ ProxySendClosed
    \/ StreamNext
    \/ StreamNextMore
    \/ StreamNextNone
    \/ StreamClose

SpecDeliver ==
    /\ InitDeliver
    /\ [][NextDeliver]_vars
    /\ WF_vars(ProxySend)
    /\ WF_vars(StreamNext \/ StreamNextMore)

\* ------------------------------------------------------------------------
\* ValorantEventStream::connect, followed by the stream it returns
\* ------------------------------------------------------------------------
\* Before connect: no websocket, no channel, no proxy task.
StreamUnconnected ==
    /\ n_frames = 0
    /\ arrived = <<>>
    /\ last_event = NoRelevant
    /\ val_event = NoEvent
    /\ proxy_pc = None
    /\ chan = <<>>
    /\ rx = None
    /\ stream_done = FALSE
    /\ yielded = <<>>
    /\ fate = None
    /\ tracked = Untracked
    /\ ws_text = NoText
    /\ conn_pc = "handshake"
    /\ subscribed = <<>>

InitConnect ==
    /\ EngineInit
    /\ OneConfig
    /\ HttpInit
    /\ StreamUnconnected

\* connect with the proxy task spawned right after the handshake.
ConnectHandshake_StartsLoop(ok) ==
    /\ conn_pc = "handshake"
    /\ IF ok
       THEN /\ conn_pc' = "subscribe"
            /\ rx' = "open"
            /\ proxy_pc' = "receive"
       ELSE /\ conn_pc' = "failed"
            /\ UNCHANGED <<rx, proxy_pc>>
    /\ ws_text' = NoText
    /\ UNCHANGED <<engineVars, httpVars, tracked, subscribed, n_frames,
                   arrived, last_event, val_event, chan, stream_done, yielded,
                   fate>>

\* connect: let mut ws = connect_local_websocket(lockfile).await?
ConnectHandshake(ok) ==
    /\ conn_pc = "handshake"
    /\ conn_pc' = IF ok THEN "subscribe" ELSE "failed"
    /\ ws_text' = NoText
    /\ UNCHANGED <<engineVars, httpVars, tracked, subscribed, n_frames,
                   arrived, last_event, val_event, proxy_pc, chan, rx,
                   stream_done, yielded, fate>>

\* subscribe_val_events: ws.send_all sends the next directive, or fails
ConnectSubscribe(ok) ==
    /\ conn_pc = "subscribe"
    /\ Len(subscribed) < Len(Subscriptions)
    /\ IF ok
       THEN /\ subscribed' = Append(subscribed,
                                    Subscriptions[Len(subscribed) + 1])
            /\ UNCHANGED conn_pc
       ELSE /\ conn_pc' = "failed"
            /\ UNCHANGED subscribed
    /\ ws_text' = NoText
    /\ UNCHANGED <<engineVars, httpVars, tracked, n_frames, arrived,
                   last_event, val_event, proxy_pc, chan, rx, stream_done,
                   yielded, fate>>

\* subscribe_val_events: send_all flushes and returns; on Ok connect makes
\* the channel, spawns proxy_ws_events and returns the stream
ConnectSpawn(ok) ==
    /\ conn_pc = "subscribe"
    /\ Len(subscribed) = Len(Subscriptions)
    /\ IF ok
       THEN /\ conn_pc' = "connected"
            /\ rx' = "open"
            /\ proxy_pc' = "receive"
       ELSE /\ conn_pc' = "failed"
            /\ UNCHANGED <<rx, proxy_pc>>
    /\ ws_text' = NoText
    /\ UNCHANGED <<engineVars, httpVars, tracked, subscribed, n_frames,
                   arrived, last_event, val_event, chan, stream_done, yielded,
                   fate>>

\* The channel of a stream that has received at most MaxFrames messages
\* since connect is never full: the steps of NextStream but ProxySendFull.
NextConnect ==
    \/ \E ok \in BOOLEAN : ConnectHandshake(ok)
    \/ \E ok \in BOOLEAN : ConnectSubscribe(ok)
    \/ \E ok \in BOOLEAN : ConnectSpawn(ok)
    \/ \E text \in WsTexts : ProxyRecvText(text)
    \/ ProxyRecvInvalidUtf8
    \/ ProxyRecvOther
    \/ ProxyRecvClose
    \/ ProxyWsError
    \/ ProxyWsEnded
    \/ ProxySend
    \/ ProxySendClosed
    \/ StreamNext
    \/ StreamNextNone
    \/ StreamClose

SpecConnect == InitConnect /\ [][NextConnect]_vars

\* ------------------------------------------------------------------------
\* Properties
\* ------------------------------------------------------------------------
IsPrefix(s, t) == Len(s) <= Len(t) /\ s = SubSeq(t, 1, Len(s))

\* C1: when the event handler dispatches a PhaseReport whose phase equals the
\* recorded loop_state, that step leaves auth, current_match_id and loop_state
\* unchanged, starts no handle_pregame, sends no API call and returns to
\* taking the next event, whatever match id the report carries.
C1_DuplicatePhaseIsNoOp ==
    [][ ( /\ ev_pc = "dispatch"
          /\ ev_pc' # "dispatch"
          /\ ev_event.type = "ClientInfo"
          /\ ev_event.loop_state = loop_state )
        => ( /\ UNCHANGED <<auth, current_match_id, loop_state>>
             /\ hp' = hp
             /\ runs' = runs
             /\ http_step' = NoHttp
             /\ ev_pc' \in {"next", "done"} ) ]_vars

\* A Pregame report for m2 was handled while Pregame with m1 was recorded.
C1_Witness ==
    /\ ev_pc = "next"
    /\ ev_event = ClientInfo("Pregame", "m2")
    /\ loop_state = "Pregame"
    /\ current_match_id = "m1"
    /\ runs = 1

\* C2: between two moments at which loop_state is not Pregame, handle_pregame
\* is called at most once; once Pregame is recorded and the transition has
\* been handled it has been called exactly once; a sequence only runs while
\* Pregame is recorded.
C2_OneSequencePerPregameEntry ==
    /\ runs <= 1
    /\ (loop_state = "Pregame" /\ hp.pc = None /\ ev_pc # "set_match")
          => runs = 1
    /\ hp.pc # None => loop_state = "Pregame"

\* Bootstrap found a pregame match and ran the sequence; the only event taken
\* so far is a Pregame report, and it started no second sequence.
C2_Witness ==
    /\ n_events = 1
    /\ ev_pc = "next"
    /\ ev_event.loop_state = "Pregame"
    /\ loop_state = "Pregame"
    /\ obs.returned = None
    /\ runs = 1

PhaseHasMatch == loop_state \in {"Pregame", "Ingame"}

\* C3: in every state in which the command handler holds the client (and can
\* read both fields), current_match_id is Some iff loop_state is Pregame or
\* Ingame.
C3_PhaseAndMatchIdTogether ==
    cmd_client => (current_match_id # None <=> PhaseHasMatch)

\* C4: the lock requests of a sequence go to the looked-up agents in list
\* order, one per agent, nothing follows a successful lock, and the report
\* names the agent locked and the number of failed attempts before it.
C4_InOrderUntilFirstSuccess ==
    LET n == Len(obs.attempted) IN
    /\ IsPrefix(obs.attempted, obs.agents)
    /\ Len(obs.results) = n
    /\ \A k \in 1..n : obs.results[k] = "Ok" => k = n
    /\ (n > 0 /\ obs.results[n] = "Ok")
          => /\ hp.pc = None
             /\ obs.report = [agent |-> obs.agents[n], failed_attempts |-> n - 1]
    /\ obs.report # NoReport => (n > 0 /\ obs.results[n] = "Ok")

\* Astra and Breach failed, Cypher was locked.
C4_Witness ==
    /\ obs.agents = <<"Astra", "Breach", "Cypher">>
    /\ obs.results = <<"Err", "Err", "Ok">>
    /\ obs.attempted = obs.agents
    /\ obs.report = [agent |-> "Cypher", failed_attempts |-> 2]
    /\ hp.pc = None

\* C5: a sequence that resolved its map and in which no lock succeeded (the
\* list is empty, or every attempt failed) ends having attempted each agent
\* of the list exactly once, reporting nothing, returning normally with
\* Pregame still recorded, and its caller goes on (the event handler to the
\* next event, bootstrap to Ok(client)).
C5_NoLockIsSoftFailure ==
    [][ ( /\ hp.pc # None
          /\ hp'.pc = None
          /\ obs'.map # None
          /\ \A k \in 1..Len(obs'.results) : obs'.results[k] = "Err" )
        => ( /\ obs'.returned = "Some"
             /\ obs'.report = NoReport
             /\ obs'.attempted = obs'.agents
             /\ loop_state' = "Pregame"
             /\ IF init_owner = None
                THEN ev_pc' = "next"
                ELSE init_pc' = "return" ) ]_vars

\* Every agent of a three agent list was attempted and failed; the event
\* handler is back at taking the next event.
C5_Witness ==
    /\ obs.returned = "Some"
    /\ obs.report = NoReport
    /\ Len(obs.agents) = 3
    /\ obs.results = <<"Err", "Err", "Err">>
    /\ loop_state = "Pregame"
    /\ ev_pc = "next"

\* The AgentConfig entry Config::get_agents uses for a map ("None" if none).
ConfiguredEntry(cfg, map_name) ==
    LET mac == cfg.map_agent_config IN
    CASE mac.kind = "None" -> AC_None
      [] mac.kind = "Default" -> mac.default
      [] mac.kind = "PerSelectedMap" ->
            IF map_name \in DOMAIN mac.map_agents
            THEN mac.map_agents[map_name] ELSE AC_None
      [] mac.kind = "DefaultOnSelectedMaps" ->
            IF map_name \in Range(mac.maps) THEN mac.default ELSE AC_None
      [] mac.kind = "PerSelectedMapOrDefault" ->
            IF map_name \in DOMAIN mac.map_agents
            THEN mac.map_agents[map_name] ELSE mac.default

\* C6: for a fixed (AgentConfig::Some) entry the lock requests of a sequence
\* follow the order of the configured list.
C6_ConfiguredListOrder ==
    obs.map # None =>
        LET ac == ConfiguredEntry(config, obs.map) IN
        ac.kind = "Some" => IsPrefix(obs.attempted, ac.agents)

\* C7: a sequence that loaded INTERRUPT = true returned at once: it fetched
\* no pregame match, waited no delay and sent no lock request.
C7_InterruptedSequenceDoesNothing ==
    obs.interrupted =>
        /\ hp.pc = None
        /\ obs.returned = "None"
        /\ ~obs.fetched
        /\ ~obs.waited
        /\ obs.attempted = <<>>
        /\ obs.report = NoReport

\* A live Pregame transition was handled while the flag was set.
C7_Witness ==
    /\ obs.interrupted
    /\ loop_state = "Pregame"
    /\ current_match_id = "m1"
    /\ ev_pc = "next"
    /\ ev_event = ClientInfo("Pregame", "m1")

\* C8: a call makes at most two attempts, which take the network's answers
\* in order; a timeout followed by a successful attempt gives the success
\* value; two timeouts give the timeout error after exactly two attempts.
C8_AtMostOneRetry ==
    LET c == last_call IN
    c.op # None =>
        /\ Len(c.sent) <= 2
        /\ c.sent = SubSeq(net_outs, 1, Len(c.sent))
        /\ c.sent = <<"timeout", "ok">> =>
              /\ c.res = "ok"
              /\ (c.op \notin TypedOps \/ net_decodes) => c.result = "Ok"
        /\ (c.sent # <<>> /\ net_outs[1] = "timeout" /\ net_outs[2] = "timeout")
              => /\ c.sent = <<"timeout", "timeout">>
                 /\ c.res = "timeout"
                 /\ c.result = "Err"

\* lock_agent timed out once and then succeeded.
C8_Witness ==
    /\ last_call.op = "lock_agent"
    /\ last_call.sent = <<"timeout", "ok">>
    /\ last_call.result = "Ok"

\* C9: a second attempt is made only after a first attempt that timed out;
\* another send error or a non-2xx status of the first attempt, and an
\* undecodable body of its 2xx response, are returned as an error after
\* exactly one attempt.
C9_RetryOnlyOnTimeout ==
    LET c == last_call IN
    (c.op # None /\ c.sent # <<>>) =>
        /\ Len(c.sent) >= 2 => c.sent[1] = "timeout"
        /\ net_outs[1] \in {"error", "status"}
              => (c.sent = <<net_outs[1]>> /\ c.result = "Err")
        /\ (net_outs[1] = "ok" /\ c.op \in TypedOps /\ ~net_decodes)
              => (c.sent = <<"ok">> /\ c.result = "Err")

\* lock_agent got a non-2xx status at its first attempt.
C9_Witness ==
    /\ last_call.op = "lock_agent"
    /\ last_call.sent = <<"status">>
    /\ last_call.result = "Err"

\* C10 as stated: next() never yields two consecutive structurally equal
\* ValorantEvents.
C10_NoConsecutiveEqualEvents ==
    \A k \in 1..(Len(yielded) - 1) : yielded[k].ev # yielded[k + 1].ev

\* C10 amended: a message that decodes to a RelevantEvent (opcode, kind, data,
\* eventType and uri) equal to the last successfully decoded one is not sent
\* downstream, and next() never yields two consecutive events made of
\* structurally equal RelevantEvents.
C10_NoConsecutiveEqualDecodedEvents ==
    /\ \A k \in 1..(Len(yielded) - 1) : yielded[k].src # yielded[k + 1].src
    /\ \A k \in 1..Len(yielded) : yielded[k].ev = ToValorantEvent(yielded[k].src)
    /\ fate = "duplicate" => proxy_pc # "send"

\* Two events were yielded and a third message, a duplicate, was dropped.
C10_Witness ==
    /\ n_frames = 3
    /\ fate = "duplicate"
    /\ Len(yielded) = 2
    /\ chan = <<>>
    /\ proxy_pc = "receive"

\* The decodable message at or before position k (NoRelevant: there is none).
RECURSIVE LastDecodable(_, _)
LastDecodable(events, k) ==
    IF k = 0 THEN NoRelevant
    ELSE IF events[k] # NoRelevant THEN events[k]
         ELSE LastDecodable(events, k - 1)

\* A decoded message is kept when it is decodable and differs from the
\* decodable message before it.
Kept(events, k) ==
    /\ events[k] # NoRelevant
    /\ events[k] # LastDecodable(events, k - 1)

\* The kept messages among events[lo..hi], in their order.
RECURSIVE Suppressed(_, _, _)
Suppressed(events, lo, hi) ==
    IF lo > hi THEN <<>>
    ELSE IF lo = hi
         THEN IF Kept(events, lo) THEN <<events[lo]>> ELSE <<>>
         ELSE LET mid == (lo + hi) \div 2
              IN Suppressed(events, lo, mid) \o Suppressed(events, mid + 1, hi)

Sources(q) == [k \in DOMAIN q |-> q[k].src]

\* C11: the events next() has returned are a prefix of the decodable
\* messages in arrival order without the suppressed duplicates; while the
\* receiver is open, the events returned, those in the channel and the one
\* waiting to be sent are exactly these messages, also after the channel was
\* full.
C11_YieldedIsPrefixOfArrivals ==
    LET expected == Suppressed(arrived, 1, Len(arrived))
        waiting == IF proxy_pc = "send" THEN <<last_event>> ELSE <<>>
    IN /\ IsPrefix(Sources(yielded), expected)
       /\ rx = "open" =>
             Sources(yielded) \o Sources(chan) \o waiting = expected

\* An event found the channel full, waited and was sent once next() had taken
\* an event.
C11_Witness ==
    /\ fate = "backoff"
    /\ proxy_pc = "receive"
    /\ Len(chan) = ChannelCapacity
    /\ Len(yielded) = 1
    /\ chan[ChannelCapacity].src = arrived[Len(arrived)]
    /\ Len(arrived) = ChannelCapacity + 1

\* C12: a close frame, a transport error or the end of the transport ends the
\* proxy task, which never receives again; next() returns None only when the
\* receiver is gone or the channel is empty with the proxy task ended, and
\* once it has returned None it returns no event any more.
C12_TerminationIsFinal ==
    /\ [](fate \in {"close", "error", "ended"} => proxy_pc = "ended")
    /\ []((stream_done /\ rx = "open") => (chan = <<>> /\ proxy_pc = "ended"))
    /\ [][/\ proxy_pc = "ended" =>
               (proxy_pc' = "ended" /\ n_frames' = n_frames
                   /\ arrived' = arrived /\ Len(chan') <= Len(chan))
          /\ stream_done => (stream_done' /\ yielded' = yielded)]_vars

\* After two events a close frame arrived; next() returned the two events and
\* then None.
C12_Witness ==
    /\ fate = "close"
    /\ rx = "open"
    /\ Len(yielded) = 2
    /\ stream_done

\* The step receives a malformed message: an empty text, a text that decodes
\* to neither variant, or a Binary message that is not valid UTF-8.
MalformedReceived ==
    /\ proxy_pc = "receive"
    /\ \/ n_frames' = n_frames + 1 /\ fate' \in {"empty", "undecodable"}
       \/ proxy_pc' = "ended" /\ fate' = "panic"

\* C13: a malformed message is discarded: nothing is sent, last_event is
\* unchanged and the proxy task goes on to receive the next message.
C13_MalformedInputIsDiscarded ==
    [][MalformedReceived =>
          (/\ proxy_pc' = "receive"
           /\ last_event' = last_event
           /\ chan' = chan)]_vars

\* C14: a command executed while current_match_id is None sends no request,
\* ends as an error, is not put back into the channel, and the command
\* handler goes on to receive the next command.
C14_CommandWithoutMatchIsDropped ==
    [][(cmd_pc = "exec" /\ cmd_pc' # "exec" /\ current_match_id = None) =>
          (/\ http_step' = NoHttp
           /\ cmd_result' = "Err"
           /\ cmd_queue' = cmd_queue
           /\ cmd' = None
           /\ cmd_pc' = "recv")]_vars

\* No event was handled since a bootstrap outside of any match; a first
\* command failed and the command handler is executing the next one.
C14_Witness ==
    /\ n_events = 0
    /\ cmd_client
    /\ current_match_id = None
    /\ cmd_result = "Err"
    /\ cmd_pc = "exec"
    /\ cmd = "QuitGame"

\* C15: a call of quit_pregame or quit_game on the handle completes when it
\* is made, whatever the command handler is doing: the caller is never left
\* waiting for the command handler, and never panics.
C15_EnqueueNeverWaits == caller.pc = "idle"

\* The session right after a bootstrap outside of any match, as SpecHandle
\* starts it.
BootstrappedReached == Bootstrapped /\ cmd_queue = <<>>

\* C16: every request authenticated with the session's credentials carries
\* the pair that is stored when the request is made, old or new as a whole,
\* also while the event handler is about to apply a refresh.
C16_CredentialsNeverTorn ==
    [][(http_step'.op # None /\ http_step'.op \notin LocalOps) =>
          (/\ http_step'.auth = auth
           /\ http_step'.auth \in {BootAuth, NewAuth})]_vars

\* The command handler sent a request with the old pair while the event
\* handler held a refresh it had not applied yet.
C16_Witness ==
    /\ http_step.op = "quit_ingame"
    /\ http_step.auth = BootAuth
    /\ ev_pc = "dispatch"
    /\ ev_event = EntitlementsTokenChanged(NewAuth)

\* init returns Ok(this): the bootstrap completes in this step.
BootstrapCompletes ==
    /\ init_pc = "return"
    /\ init_pc' = None
    /\ client_state' = "Client"

\* C17: when a bootstrap completes, the Session State is Pregame with the
\* probed match id if the pregame probe succeeded (and the in-game probe was
\* not made), else Ingame with the in-game probe's match id if that probe
\* succeeded, else Menus with no match id.
C17_BootstrapPhaseFollowsProbes ==
    [][BootstrapCompletes =>
          CASE probes.pregame \in MatchIds ->
                   /\ loop_state' = "Pregame"
                   /\ current_match_id' = probes.pregame
                   /\ probes.ingame = "NotMade"
            [] probes.pregame = "Err" /\ probes.ingame \in MatchIds ->
                   /\ loop_state' = "Ingame"
                   /\ current_match_id' = probes.ingame
            [] probes.pregame = "Err" /\ probes.ingame = "Err" ->
                   /\ loop_state' = "Menus"
                   /\ current_match_id' = None
            [] OTHER -> FALSE]_vars

\* The bootstrap run by start is about to return Ok: its pregame probe
\* found match m2 and its Automation Sequence has returned.
C17_Witness ==
    /\ init_owner = "main"
    /\ init_pc = "return"
    /\ probes = [pregame |-> "m2", ingame |-> "NotMade"]
    /\ loop_state = "Pregame"
    /\ obs.returned = "Some"

\* The bootstrap run by start fails in this step: the credentials, or the
\* session list with its region and shard, could not be resolved.
StartBootstrapFails ==
    /\ init_owner = "main"
    /\ init_pc \in {"auth", "sessions"}
    /\ init_pc' = None

\* C18 as stated: a bootstrap failure in start is reported to the caller as
\* an error instead of a handle.
C18_BootstrapFailureAbortsStart ==
    [][StartBootstrapFails => main_pc' = "failed"]_vars

\* C18, amended: a bootstrap failure in start is not reported. start
\* returns a handle with the session unconstructed and both loops spawned;
\* start fails only when the Event Stream cannot be connected, before any
\* bootstrap request is sent.
C18_BootstrapFailureIsDeferred ==
    /\ [][StartBootstrapFails =>
             /\ main_pc' = "spawned"
             /\ client_state' = "Parts"
             /\ ev_pc' = "next"
             /\ cmd_pc' = "top"]_vars
    /\ [](main_pc = "failed" => n_inits = 0 /\ client_state = "Parts")

\* start has returned a handle although its bootstrap failed.
C18_Witness ==
    /\ main_pc = "spawned"
    /\ client_state = "Parts"
    /\ n_inits = 1
    /\ init_pc = None
    /\ http_step.op = "sessions_info"

\* An HTTP call of the Automation Sequence fails in this step while the
\* event loop handles an event: the map fetch, or a lock request.
EventCallFails ==
    /\ init_owner = None
    /\ \/ hp.pc = "fetch" /\ obs'.fetch_result = "Err"
       \/ /\ hp.pc = "lock"
          /\ Len(obs'.results) = Len(obs.results) + 1
          /\ obs'.results[Len(obs'.results)] = "Err"

\* C19: a failed map fetch or lock request never ends the event loop; the
\* loop stays in the sequence or returns to take the next event.
C19_FailedCallNeverEndsEventLoop ==
    [][EventCallFails => ev_pc' \in {"hp", "next"}]_vars

\* C20: once every clone of the handle is dropped, the command loop
\* terminates and marks the client not running.
C20_DroppedHandleStopsCommandLoop ==
    (~handle_alive) ~> (cmd_pc = "done" /\ ~running)

\* C21: connect sends the subscribe directives one per recognized kind, in
\* order, each with opcode 5; the background loop exists, and anything is
\* received, queued or returned, only after all of them were sent; a failed
\* connect leaves no background loop and no stream.
C21_SubscribedBeforeLoop ==
    /\ IsPrefix(subscribed, Subscriptions)
    /\ (proxy_pc # None \/ n_frames > 0 \/ chan # <<>> \/ yielded # <<>>)
          => subscribed = Subscriptions
    /\ conn_pc = "failed"
          => (proxy_pc = None /\ rx = None /\ chan = <<>> /\ yielded = <<>>)

\* connect has returned a stream and next() has returned a first event.
C21_Witness ==
    /\ conn_pc = "connected"
    /\ Len(subscribed) = 2
    /\ subscribed[1] # subscribed[2]
    /\ Len(yielded) = 1
    /\ n_frames = 1

\* The event loop is between two events, or init is about to return the
\* session it has bootstrapped.
BetweenEvents == ev_pc = "next" \/ init_pc = "return"

\* C22: between events and right after bootstrap the recorded phase and
\* match id are those last told to the session by a probe or by a phase
\* report that differed from the record (no match id for Menus); a sequence
\* is started by the event loop for a Pregame report only.
C22_RecordFollowsLastReport ==
    /\ [](BetweenEvents =>
             /\ loop_state = reported.phase
             /\ current_match_id = reported.id)
    /\ [][(init_owner = None /\ hp.pc = None /\ hp'.pc # None) =>
             /\ ev_event.loop_state = "Pregame"
             /\ reported.phase = "Pregame"
             /\ hp'.wait]_vars

\* Bootstrap found match m1 in game; the Menus report that followed has been
\* handled and the match id is gone.
C22_Witness ==
    /\ ev_pc = "next"
    /\ n_events = 2
    /\ ev_event = ClientInfo("Menus", "")
    /\ reported = Told("Menus", None)
    /\ loop_state = "Menus"
    /\ current_match_id = None
    /\ n_inits = 1
    /\ runs = 0

\* handle_pregame is past its INTERRUPT check.
PastInterruptCheck == hp.pc \in {"fetch", "wait", "lock"}

\* C23: once a sequence is past its check, a set INTERRUPT flag changes
\* nothing: the map is resolved (or the lookup fails), the delay is waited,
\* each candidate in turn gets its lock request, and the sequence never
\* returns early; it ends with a lock, with every candidate attempted, or
\* with the failure of the map lookup.
C23_InterruptOnlyAtStart ==
    [][(INTERRUPT /\ PastInterruptCheck /\ hp' # hp) =>
          /\ hp'.pc = None => obs'.returned \in {"Some", "panic"}
          /\ hp.pc = "fetch" =>
                \/ hp'.pc = (IF hp.wait THEN "wait" ELSE "lock")
                \/ obs'.returned = "panic"
          /\ hp.pc = "wait" => hp'.pc = "lock"
          /\ (hp.pc = "lock" /\ hp.i < Len(hp.agents)) =>
                /\ http_step'.op = "lock_agent"
                /\ http_step'.arg = hp.agents[hp.i + 1]
                /\ Len(obs'.results) = Len(obs.results) + 1
          /\ (hp'.pc = None /\ obs'.returned = "Some") =>
                \/ obs'.report # NoReport
                \/ hp.i >= Len(hp.agents)]_vars

\* The flag was clear at the check of a live sequence and is set while the
\* second candidate's lock request is made.
C23_Witness ==
    /\ INTERRUPT
    /\ ~obs.interrupted
    /\ obs.waited
    /\ http_step.op = "lock_agent"
    /\ obs.results = <<"Err", "Ok">>

\* A step of handle_pregame in which the match detail fetch fails.
MapFetchFails ==
    /\ hp.pc = "fetch"
    /\ hp' # hp
    /\ obs'.fetch_result # "Ok"

\* C24: a failed match detail fetch does not abort the sequence: it goes on
\* with the default map Ascent and the candidates configured for Ascent.
C24_FetchFailureFallsBackToAscent ==
    [][MapFetchFails =>
          /\ hp'.pc = (IF hp.wait THEN "wait" ELSE "lock")
          /\ obs'.map = "Ascent"
          /\ hp'.agents \in Config_get_agents(config, "Ascent")
          /\ obs'.returned = None]_vars

\* A step of handle_pregame that sends a lock request.
LockRequestSent == hp.pc = "lock" /\ http_step'.op = "lock_agent"

\* C25: a sequence started by a live Pregame event (outside bootstrap) sends
\* no lock request before it has waited the initial delay, and it waits
\* after the interrupt check passed and the map was resolved, before any
\* attempt; a sequence started by bootstrap never waits.
C25_DelayOnlyForLiveEvent ==
    /\ [](hp.pc # None => (hp.wait <=> init_owner = None))
    /\ [][LockRequestSent => (obs.waited <=> init_owner = None)]_vars
    /\ [][(~obs.waited /\ obs'.waited) =>
             /\ init_owner = None
             /\ hp.pc = "wait"
             /\ ~obs.interrupted
             /\ obs.map # None
             /\ obs.attempted = <<>>
             /\ obs.results = <<>>]_vars

\* The first lock request of a live sequence has just been sent, after the
\* delay and a successful map fetch.
C25_Witness ==
    /\ init_owner = None
    /\ ev_event = ClientInfo("Pregame", "m1")
    /\ obs.waited
    /\ obs.fetch_result = "Ok"
    /\ http_step.op = "lock_agent"
    /\ Len(obs.results) = 1

\* C26: with a consumer that keeps calling next() and a proxy task that
\* keeps retrying, every event the proxy decoded and did not suppress is
\* eventually returned by next(), unless the consumer closes the stream;
\* this covers an event decoded while the channel was full.
C26_DecodedEventIsEventuallyReturned ==
    (tracked.st = "pending") ~> (tracked.st = "returned" \/ rx = "closed")

\* An event decoded behind a full channel has waited for room and has been
\* returned after the ChannelCapacity events in front of it.
C26_Witness ==
    /\ tracked.st = "returned"
    /\ fate = "backoff"
    /\ Len(arrived) = ChannelCapacity + 1
    /\ chan = <<>>
    /\ rx = "open"

\* C27: once the receiver is closed it stays closed, the channel holds
\* nothing and nothing more is queued or returned; the proxy task's next
\* delivery attempt is its last step: it drops the event and terminates,
\* and no step leaves the task with an event to deliver in any other way.
C27_ClosedReceiverEndsProxy ==
    /\ [](rx = "closed" => chan = <<>>)
    /\ [][rx = "closed" =>
             /\ rx' = "closed"
             /\ chan' = <<>>
             /\ yielded' = yielded]_vars
    /\ [][(rx = "closed" /\ proxy_pc = "send" /\ proxy_pc' # "send") =>
             /\ proxy_pc' = "ended"
             /\ tracked' = Dropped]_vars
    /\ [][(rx = "closed" /\ proxy_pc = "send") =>
             (n_frames' = n_frames /\ arrived' = arrived)]_vars
    /\ [](proxy_pc = "ended" => ~ENABLED ProxySendClosed)

\* The receiver was closed, a message was decoded, and the delivery attempt
\* ended the proxy task; next() has returned None.
C27_Witness ==
    /\ rx = "closed"
    /\ proxy_pc = "ended"
    /\ tracked = Dropped
    /\ fate = "decoded"
    /\ n_frames = 2
    /\ Len(yielded) = 1
    /\ stream_done

\* The proxy has just received a text message and decoded it.
TextDecoded == ws_text # NoText /\ ws_text.shape # "empty"

\* What the decoding of the message just received gave.
JustDecoded == arrived[Len(arrived)]

C29_ComparedWithLastDecodedOnly ==
    [][(Len(arrived') = Len(arrived) + 1
           /\ arrived'[Len(arrived')] # NoRelevant) =>
          IF arrived'[Len(arrived')] = LastDecodable(arrived, Len(arrived))
          THEN /\ fate' = "duplicate"
               /\ proxy_pc' = "receive"
               /\ UNCHANGED <<val_event, chan, tracked>>
          ELSE /\ fate' = "decoded"
               /\ proxy_pc' = "send"
               /\ val_event' = ToValorantEvent(arrived'[Len(arrived')])
               /\ tracked' = Pending]_vars

\* A, X, A with X undecodable: the first A was returned by next(), the
\* second A was suppressed.
C29_Witness ==
    /\ Len(arrived) = 3
    /\ arrived[1] # NoRelevant
    /\ arrived[2] = NoRelevant
    /\ arrived[3] = arrived[1]
    /\ fate = "duplicate"
    /\ Len(yielded) = 1
    /\ chan = <<>>
    /\ proxy_pc = "receive"

\* A, B, A with A and B decodable and different: all three were returned.
C29_AllThreeDelivered ==
    /\ Len(arrived) = 3
    /\ arrived[1] # NoRelevant
    /\ arrived[2] # NoRelevant
    /\ arrived[2] # arrived[1]
    /\ arrived[3] = arrived[1]
    /\ Len(yielded) = 3
    /\ \A k \in 1..3 : yielded[k].src = arrived[k]

\* The request that executes a command.
CommandOp(c) == IF c = "QuitPregame" THEN "quit_pregame" ELSE "quit_ingame"

\* C30: the command handler takes the command at the head of the channel
\* and removes it; while it executes a command it takes no other, and only
\* new commands join the channel, at its tail; the execution ends with the
\* result of its one call, the command is not put back, failed or not, and
\* only then the handler receives again; a quit request is only ever sent
\* for the command being executed.
C30_CommandsInOrderAtMostOnce ==
    [][/\ (cmd_pc = "recv" /\ cmd_pc' = "exec") =>
             /\ cmd_queue # <<>>
             /\ cmd' = Head(cmd_queue)
             /\ cmd_queue' = Tail(cmd_queue)
       /\ cmd_pc = "exec" =>
             /\ cmd_queue' = cmd_queue \/ IsPrefix(cmd_queue, cmd_queue')
             /\ cmd_pc' = "exec" => cmd' = cmd
       /\ (cmd_pc = "exec" /\ cmd_pc' # "exec") =>
             /\ cmd_pc' = "recv"
             /\ cmd' = None
             /\ cmd_queue' = cmd_queue
             /\ cmd_result' \in {"Ok", "Err"}
             /\ http_step'.op \in {None, CommandOp(cmd)}
             /\ cmd_result' = "Ok" => http_step'.op = CommandOp(cmd)
       /\ cmd_queue' # cmd_queue =>
             \/ /\ cmd_pc = "recv"
                /\ cmd_queue # <<>>
                /\ cmd_queue' = Tail(cmd_queue)
             \/ \E c \in Commands : cmd_queue' = Append(cmd_queue, c)
       /\ http_step'.op \in {"quit_pregame", "quit_ingame"} =>
             (cmd_pc = "exec" /\ cmd_pc' = "recv")]_vars

\* Two commands were enqueued; the request of the first has just failed and
\* the second is still in the channel.
C30_Witness ==
    /\ n_cmds = 2
    /\ http_step.op = "quit_pregame"
    /\ cmd_result = "Err"
    /\ cmd_pc = "recv"
    /\ cmd = None
    /\ cmd_queue = <<"QuitGame">>

\* The event handler task holds an event it has not finished handling.
EventInProgress ==
    ev_pc \in {"need_client", "init", "dispatch", "set_match", "hp"}

\* C31 as stated: no command is executed while the handling of an event is
\* in progress, and no event is handled while a command is executed.
C31_OneConcurrencyDomain == ~(cmd_pc = "exec" /\ EventInProgress)

\* C31, amended: commands and events are handled by two tasks that run
\* side by side. Each task finishes the item it holds before it takes its
\* next one: an event is taken only when the event handler is back at
\* next() with no sequence of its own running, the event it holds does not
\* change while it is handled, and a command is taken only at recv().
C31_EachLoopOneAtATime ==
    [][/\ n_events' # n_events =>
             /\ ev_pc = "next"
             /\ hp.pc # None => init_owner = "cmd"
       /\ EventInProgress => (ev_event' = ev_event /\ n_events' = n_events)
       /\ (cmd' # cmd /\ cmd' # None) => (cmd_pc = "recv" /\ cmd = None)
       /\ (ev_pc = "hp" /\ hp.pc # None /\ hp'.pc = None) =>
             ev_pc' \in {"next", "hp"}]_vars

\* The command handler has just sent a quit request while the event
\* handler's sequence stands between two lock attempts.
C31_Witness ==
    /\ http_step.op = "quit_pregame"
    /\ cmd_pc = "recv"
    /\ ev_pc = "hp"
    /\ hp.pc = "lock"
    /\ hp.i = 1
    /\ init_owner = None

\* The task that holds the guard of client_state.lock(): the handler task
\* whose statement client_state.lock().retry_init().await is running (start
\* runs its bootstrap before the mutex exists).
ClientStateLockHolder ==
    IF init_owner \in {"ev", "cmd"} THEN init_owner ELSE None

\* C32: no request is sent, and no delay is waited, while a task holds the
\* lock of the shared client-state cell.
C32_NoLockAcrossIO ==
    [][(http_step'.op # None \/ (~obs.waited /\ obs'.waited)) =>
          ClientStateLockHolder = None]_vars

\* C33: the cell goes from Parts to Client only when a bootstrap returns
\* Ok, and never back; no bootstrap runs once the cell holds a client, so
\* at most one bootstrap succeeds and the client (with its shard and
\* region) is constructed once; a handler task holds a client only when it
\* is a clone of the one in the cell.
C33_ClientConstructedOnce ==
    /\ [](init_owner # None => client_state = "Parts")
    /\ []((ev_client \/ cmd_client) => client_state = "Client")
    /\ [][client_state = "Client" => client_state' = "Client"]_vars
    /\ [][client_state' # client_state =>
             (init_pc = "return" /\ init_owner # None)]_vars

\* start's bootstrap failed, the command handler's retry succeeded, and the
\* event handler has picked up the same client for its first event.
C33_Witness ==
    /\ n_inits = 2
    /\ client_state = "Client"
    /\ cmd_client
    /\ ev_client
    /\ ev_pc = "dispatch"
    /\ n_events = 1
    /\ init_owner = None

\* C34: the step on which stream.next() yields None takes the event loop to
\* its end, and an ended loop takes and handles nothing more; with the
\* handler task scheduled fairly, once the proxy task has ended the loop
\* handles what is queued and ends (by the None, by the running flag or by a
\* panic of the sequence), and a loop waiting on the drained channel of an
\* ended proxy task is ended by the None.
C34_StreamEndEndsEventLoop ==
    /\ [][(ev_pc = "next" /\ ~stream_done /\ stream_done') =>
             ev_pc' = "done"]_vars
    /\ [][ev_pc = "done" =>
             /\ ev_pc' = "done"
             /\ n_events' = n_events
             /\ ev_event' = ev_event
             /\ hp' = hp
             /\ UNCHANGED sessVars]_vars
    /\ (proxy_pc = "ended" /\ chan = <<>> /\ ev_pc = "next")
           ~> (stream_done /\ ev_pc = "done")
    /\ (proxy_pc = "ended") ~> (ev_pc \in {"done", "panicked"})

\* The websocket ended after two reports; the loop handled both, the first
\* with an automation sequence, and then ended on the None.
C34_Witness ==
    /\ stream_done
    /\ ev_pc = "done"
    /\ running
    /\ proxy_pc = "ended"
    /\ n_events = 2
    /\ runs = 1
    /\ chan = <<>>

\* C35: a lock_agent request is sent only from the lock loop of a sequence,
\* while the recorded phase is Pregame and a match id is recorded, and it
\* targets that match id; while a sequence is in flight neither the recorded
\* phase nor the recorded match id changes.
C35_LockTargetsRecordedPregameMatch ==
    /\ [][http_step'.op = "lock_agent" =>
             /\ hp.pc = "lock"
             /\ loop_state = "Pregame"
             /\ current_match_id # None
             /\ http_step'.target = current_match_id]_vars
    /\ [][hp.pc # None =>
             /\ loop_state' = loop_state
             /\ current_match_id' = current_match_id]_vars

\* The first lock request of a sequence that a Pregame report for m2 started
\* on the event handler task has failed.
C35_Witness ==
    /\ http_step.op = "lock_agent"
    /\ http_step.target = "m2"
    /\ current_match_id = "m2"
    /\ loop_state = "Pregame"
    /\ ev_pc = "hp"
    /\ hp.pc = "lock"
    /\ hp.i = 1

\* C36: the step that executes a command leaves credentials, match id and
\* phase as they were, whatever its result; its request, if any, is the
\* command's quit request for the recorded match id, and it is sent exactly
\* when a match id is recorded, whatever the recorded phase; once the command
\* handler holds the client the phase changes only when the event handler
\* dispatches a report.
C36_CommandLeavesSessionState ==
    /\ [][(cmd_pc = "exec" /\ cmd_pc' = "recv") =>
             /\ UNCHANGED sessVars
             /\ cmd_result' \in {"Ok", "Err"}
             /\ IF current_match_id = None
                THEN http_step'.op = None /\ cmd_result' = "Err"
                ELSE /\ http_step'.op = CommandOp(cmd)
                     /\ http_step'.target = current_match_id]_vars
    /\ [][(cmd_client /\ loop_state' # loop_state) => ev_pc = "dispatch"]_vars

\* A leave-pregame command has just succeeded while the recorded phase is
\* Ingame, and the phase and match id are still recorded.
C36_Witness ==
    /\ http_step.op = "quit_pregame"
    /\ cmd_result = "Ok"
    /\ cmd_pc = "recv"
    /\ loop_state = "Ingame"
    /\ current_match_id = "m1"
    /\ http_step.target = "m1"

\* C37: a sequence entered with the interrupt flag set returns at once and
\* leaves the phase Pregame and the match id recorded; from then on, as from
\* any state with the phase Pregame, no sequence in flight and none about to
\* be called for the transition being handled, a step that keeps the phase
\* Pregame starts no sequence and sends no lock request, whatever the flag is
\* and whatever report is handled; and the event handler goes on to store a
\* match id and call the sequence only on a report that changed the phase.
C37_InterruptedPregameIsNotRetried ==
    /\ [][(hp.pc = "entry" /\ hp'.pc # "entry"
             /\ INTERRUPT /\ current_match_id # None) =>
             /\ hp'.pc = None
             /\ http_step'.op = None
             /\ loop_state' = "Pregame"
             /\ current_match_id' = current_match_id]_vars
    /\ [][(hp.pc = None /\ loop_state = "Pregame" /\ ev_pc # "set_match"
             /\ loop_state' = "Pregame") =>
             /\ hp'.pc = None
             /\ runs' = runs
             /\ current_match_id' = current_match_id
             /\ http_step'.op # "lock_agent"]_vars
    /\ [][(ev_pc # "set_match" /\ ev_pc' = "set_match") =>
             (loop_state # loop_state' /\ ev_pc = "dispatch")]_vars

\* The sequence for m1 was entered with the flag set and returned; the flag
\* has been cleared and the event handler waits for the next report.
C37_Witness ==
    /\ obs.interrupted
    /\ obs.returned = "None"
    /\ ~INTERRUPT
    /\ hp.pc = None
    /\ loop_state = "Pregame"
    /\ current_match_id = "m1"
    /\ ev_pc = "next"
    /\ n_events = 1
    /\ runs = 1

\* The Session State does not exist yet: no bootstrap got as far as
\* ValorantClient::new.
NoSessionYet ==
    /\ client_state = "Parts"
    /\ init_pc \in {None, "auth", "sessions"}

C39_ReplacedSessionIsSilent ==
    /\ [][succ.pc = "spawned" =>
             /\ http_step'.op # "lock_agent"
             /\ UNCHANGED sessVars]_vars
    /\ [][(hp.pc = "lock" /\ http_step'.op = "lock_agent") =>
             ~(succ.attempted /\ succ.match = http_step'.target)]_vars
    /\ [][(succ.pc = "lock" /\ http_step'.op = "lock_agent") =>
             ~(obs.attempted # <<>> /\ current_match_id = succ.match)]_vars

\* The step of handle_pregame that fetches the match detail and looks the
\* map up in the catalog.
MapResolutionStep == hp.pc = "fetch" /\ hp' # hp

\* C40: whatever the fetch returns and whatever the catalog holds, the
\* sequence resolves a map that is in the catalog and goes on to its
\* candidates; no task ends in that step.
C40_MapResolvedForEveryFetchAndCatalog ==
    [][MapResolutionStep =>
          /\ hp'.pc \in {"wait", "lock"}
          /\ \E m \in Range(GAME_MAPS) : m.name = obs'.map
          /\ obs'.returned # "panic"
          /\ ev_pc' # "panicked"
          /\ main_pc' # "panicked"
          /\ cmd_pc' # "panicked"]_vars

====
